---- MODULE Spec2Model ----
(***************************************************************************)
(* A model of the gopoc SDK's rule-execution engine (package sdk):         *)
(*   engine.go        Engine.Execute / executeRule / evaluateMainExpression *)
(*   client.go        HTTPClient.ExecuteRequest (retry loop), cookie store  *)
(*   cookie.go        CookieExtractor.ExtractCookie / ValidateCookie        *)
(*   unnamed/part_000 POCConfig, Rule and its accessors                     *)
(*   unnamed/part_001 ExpressionEvaluator                                   *)
(* Go strings are TLA+ strings; a character is a string of length one.     *)
(* A (T, error) result is a record [err, val]: err = "" is Go's nil error. *)
(***************************************************************************)
EXTENDS Integers, Sequences, FiniteSets, TLC

\* ------------------------------------------------------------------ bounds
\* Largest declared retry_count / retry budget that is explored.
MaxRetry == 2
\* Largest number of rules in a configuration.
MaxRules == 2

\* ------------------------------------------------- strings (Go's "strings")
Ch(s, i) == SubSeq(s, i, i)

CharsOf(s) == {Ch(s, i) : i \in 1..Len(s)}

Digits == CharsOf("0123456789")

UpperLetters == "ABCDEFGHIJKLMNOPQRSTUVWXYZ"

LowerLetters == "abcdefghijklmnopqrstuvwxyz"

\* The regular-expression class \w (ASCII).
WordChars == CharsOf(UpperLetters) \cup CharsOf(LowerLetters) \cup Digits \cup {"_"}

\* The white space strings.TrimSpace removes.
SpaceChars == {" ", "\t", "\n", "\r"}

HasPrefix(s, p) == Len(s) >= Len(p) /\ SubSeq(s, 1, Len(p)) = p

HasSuffix(s, p) == Len(s) >= Len(p) /\ SubSeq(s, Len(s) - Len(p) + 1, Len(s)) = p

\* Whether sub occurs in s at position i (1-based).
MatchAt(s, sub, i) == i >= 1 /\ i + Len(sub) - 1 <= Len(s) /\ SubSeq(s, i, i + Len(sub) - 1) = sub

\* strings.Index, 1-based; 0 when sub does not occur (Go's -1).
Index(s, sub) ==
    LET hits == {i \in 1..(Len(s) - Len(sub) + 1) : MatchAt(s, sub, i)}
    IN  IF hits = {} THEN 0 ELSE CHOOSE i \in hits : \A j \in hits : i <= j

Contains(s, sub) == Index(s, sub) # 0

\* strings.Trim(s, cutset): all leading and trailing characters of cutset removed.
Trim(s, cutset) ==
    LET keep == {i \in 1..Len(s) : Ch(s, i) \notin cutset}
    IN  IF keep = {} THEN ""
        ELSE SubSeq(s, CHOOSE i \in keep : \A j \in keep : i <= j,
                       CHOOSE i \in keep : \A j \in keep : i >= j)

TrimSpace(s) == Trim(s, SpaceChars)

TrimPrefix(s, p) == IF HasPrefix(s, p) THEN SubSeq(s, Len(p) + 1, Len(s)) ELSE s

TrimSuffix(s, p) == IF HasSuffix(s, p) THEN SubSeq(s, 1, Len(s) - Len(p)) ELSE s

\* strings.Split(s, sep) for a non-empty sep: the sequence of pieces.
RECURSIVE Split(_, _)
Split(s, sep) ==
    LET i == Index(s, sep)
    IN  IF i = 0 THEN <<s>>
        ELSE <<SubSeq(s, 1, i - 1)>> \o Split(SubSeq(s, i + Len(sep), Len(s)), sep)

\* strings.Join(parts, sep).
RECURSIVE Join(_, _)
Join(parts, sep) ==
    IF Len(parts) = 0 THEN ""
    ELSE IF Len(parts) = 1 THEN parts[1]
    ELSE parts[1] \o sep \o Join(Tail(parts), sep)

ToLowerCh(c) ==
    IF c \in CharsOf(UpperLetters)
    THEN Ch(LowerLetters, CHOOSE i \in 1..Len(UpperLetters) : Ch(UpperLetters, i) = c)
    ELSE c

RECURSIVE ToLower(_)
ToLower(s) == IF Len(s) = 0 THEN "" ELSE ToLowerCh(Ch(s, 1)) \o ToLower(SubSeq(s, 2, Len(s)))

DigitVal(c) == CHOOSE d \in 0..9 : Ch("0123456789", d + 1) = c

RECURSIVE DigitsVal(_)
DigitsVal(s) ==
    IF Len(s) = 0 THEN 0
    ELSE 10 * DigitsVal(SubSeq(s, 1, Len(s) - 1)) + DigitVal(Ch(s, Len(s)))

\* strconv.Atoi: an optional sign and at least one decimal digit; anything else
\* is an error.
Atoi(s) ==
    LET body == IF HasPrefix(s, "-") \/ HasPrefix(s, "+") THEN SubSeq(s, 2, Len(s)) ELSE s
    IN  IF Len(body) = 0 \/ CharsOf(body) \ Digits # {}
        THEN [err |-> "syntax", val |-> 0]
        ELSE [err |-> "", val |-> IF HasPrefix(s, "-") THEN 0 - DigitsVal(body) ELSE DigitsVal(body)]

RECURSIVE NatToString(_)
NatToString(n) ==
    IF n < 10 THEN Ch("0123456789", n + 1)
    ELSE NatToString(n \div 10) \o Ch("0123456789", (n % 10) + 1)

\* fmt.Sprintf("%v", n) of an int.
Itoa(n) == IF n < 0 THEN "-" \o NatToString(0 - n) ELSE NatToString(n)

\* ------------------------------------------- results of Go's (T, error) pairs
Ok(v) == [err |-> "", val |-> v]

Fail(e) == [err |-> e, val |-> FALSE]

\* ------------------------------------------------ Response (client.go 47-53)
\* Headers is a function from header names to sequences of values; nil marks
\* Go's nil *Response.
NoHeaders == [k \in {} |-> <<>>]

MkResponse(status, headers, body, cookies) ==
    [nil |-> FALSE, Status |-> status, Headers |-> headers, Body |-> body, Cookies |-> cookies]

NilResponse == [nil |-> TRUE, Status |-> 0, Headers |-> NoHeaders, Body |-> "", Cookies |-> <<>>]

\* The loop "for k, v := range Headers { if ToLower(k) == name && len(v) > 0 ..."
\* (part_001 268-274, cookie.go 39-46): the header entries that can end it.
HeaderHits(headers, name) ==
    {k \in DOMAIN headers : ToLower(k) = ToLower(name) /\ Len(headers[k]) > 0}

\* ------------------------------------ ExpressionEvaluator (unnamed/part_001)
QuoteChars == {"'", "\""}

\* The first position from j on that holds a quote character; 0 when none does.
CallArgEnd(expr, j) ==
    IF \A k \in j..Len(expr) : Ch(expr, k) \notin QuoteChars THEN 0
    ELSE CHOOSE k \in j..Len(expr) :
             Ch(expr, k) \in QuoteChars /\ \A m \in j..(k - 1) : Ch(expr, m) \notin QuoteChars

\* Whether the pattern  fn\(['"]([^'"]+)['"]\)  matches expr at position i: the
\* group is a maximal run of non-quote characters, at least one, between two
\* quote characters and before ")".
CallArgAt(expr, fn, i) ==
    /\ MatchAt(expr, fn \o "(", i)
    /\ i + Len(fn) + 1 <= Len(expr)
    /\ Ch(expr, i + Len(fn) + 1) \in QuoteChars
    /\ CallArgEnd(expr, i + Len(fn) + 2) > i + Len(fn) + 2
    /\ MatchAt(expr, ")", CallArgEnd(expr, i + Len(fn) + 2) + 1)

\* The capture group of the match at position i.
CallArgFrom(expr, fn, i) ==
    [found |-> TRUE,
     arg |-> SubSeq(expr, i + Len(fn) + 2, CallArgEnd(expr, i + Len(fn) + 2) - 1)]

\* FindStringSubmatch of that pattern in expr: the leftmost match.
CallArg(expr, fn) ==
    IF \A i \in 1..Len(expr) : ~CallArgAt(expr, fn, i) THEN [found |-> FALSE, arg |-> ""]
    ELSE CallArgFrom(expr, fn, CHOOSE i \in 1..Len(expr) :
                                   CallArgAt(expr, fn, i) /\ \A m \in 1..(i - 1) : ~CallArgAt(expr, fn, m))

cutAt(s, idx) == IF idx # 0 THEN SubSeq(s, 1, idx - 1) ELSE s

removeComments(s) == cutAt(s, Index(s, "#"))

\* Values of evaluateValue's interface{}: a string, an int or a bool.
StrV(s) == [t |-> "string", s |-> s, n |-> 0, b |-> FALSE]

IntV(n) == [t |-> "int", s |-> "", n |-> n, b |-> FALSE]

BoolV(b) == [t |-> "bool", s |-> "", n |-> 0, b |-> b]

\* fmt.Sprintf("%v", v).
Sprint(v) ==
    CASE v.t = "string" -> v.s
      [] v.t = "int" -> Itoa(v.n)
      [] OTHER -> IF v.b THEN "true" ELSE "false"

\* evaluateContains once the pattern's match m is known.
containsOf(m, response) ==
    IF ~m.found THEN Fail("cannot parse contains")
    ELSE IF response.nil THEN Ok(FALSE)
    ELSE Ok(Contains(response.Body, m.arg))

evaluateContains(expr, response) == containsOf(CallArg(expr, "response.body.contains"), response)

cookieContainsOf(m, cookie) ==
    IF ~m.found THEN Fail("cannot parse cookie.contains")
    ELSE Ok(Contains(cookie, m.arg))

evaluateCookieContains(expr, cookie) == cookieContainsOf(CallArg(expr, "cookie.contains"), cookie)

\* The value the header loop returns for the entries hits.
firstValue(headers, hits) == IF hits = {} THEN "" ELSE headers[CHOOSE k \in hits : TRUE][1]

headerGetOf(m, response) ==
    IF ~m.found THEN Fail("cannot parse headers.get")
    ELSE IF response.nil THEN Ok("")
    ELSE Ok(firstValue(response.Headers, HeaderHits(response.Headers, m.arg)))

evaluateHeaderGet(expr, response) == headerGetOf(CallArg(expr, "response.headers.get"), response)

\* A (bool, error) or (string, error) result as evaluateValue's (interface{}, error).
boolValue(r) == IF r.err # "" THEN Fail(r.err) ELSE Ok(BoolV(r.val))

stringValue(r) == IF r.err # "" THEN Fail(r.err) ELSE Ok(StrV(r.val))

\* evaluateValue's last two cases: a number when strconv.Atoi accepts expr, with
\* a its result; else the text itself.
numberOrText(expr, a) == IF a.err = "" THEN Ok(IntV(a.val)) ELSE Ok(StrV(expr))

\* evaluateValue on the trimmed expression.
valueOf(expr, response, cookie) ==
    IF HasPrefix(expr, "'") /\ HasSuffix(expr, "'") THEN Ok(StrV(Trim(expr, {"'"})))
    ELSE IF HasPrefix(expr, "\"") /\ HasSuffix(expr, "\"") THEN Ok(StrV(Trim(expr, {"\""})))
    ELSE IF expr = "response.status"
         THEN (IF response.nil THEN Ok(IntV(0)) ELSE Ok(IntV(response.Status)))
    ELSE IF Contains(expr, "response.body.contains") THEN boolValue(evaluateContains(expr, response))
    ELSE IF Contains(expr, "cookie.contains") THEN boolValue(evaluateCookieContains(expr, cookie))
    ELSE IF Contains(expr, "response.headers.get") THEN stringValue(evaluateHeaderGet(expr, response))
    ELSE numberOrText(expr, Atoi(expr))

evaluateValue(expr, response, cookie) == valueOf(TrimSpace(expr), response, cookie)

\* evaluateNumericValue's string case, with a the result of strconv.Atoi.
atoiResult(a) == IF a.err = "" THEN [err |-> "", val |-> a.val] ELSE [err |-> "not an integer", val |-> 0]

\* evaluateNumericValue's type switch on evaluateValue's result r.
numericOf(r) ==
    IF r.err # "" THEN [err |-> r.err, val |-> 0]
    ELSE IF r.val.t = "int" THEN [err |-> "", val |-> r.val.n]
    ELSE IF r.val.t = "string" THEN atoiResult(Atoi(r.val.s))
    ELSE [err |-> "cannot convert to a number", val |-> 0]

evaluateNumericValue(expr, response, cookie) == numericOf(evaluateValue(expr, response, cookie))

\* evaluateComparison's end, on the two sides' results; the closure of "=="
\* compares the texts for equality, that of "!=" for inequality.
compareValues(l, r, op) ==
    IF l.err # "" THEN Fail(l.err)
    ELSE IF r.err # "" THEN Fail(r.err)
    ELSE IF op = "==" THEN Ok(Sprint(l.val) = Sprint(r.val))
    ELSE Ok(Sprint(l.val) # Sprint(r.val))

compareParts(parts, op, response, cookie) ==
    IF Len(parts) # 2 THEN Fail("invalid comparison")
    ELSE compareValues(evaluateValue(TrimSpace(parts[1]), response, cookie),
                       evaluateValue(TrimSpace(parts[2]), response, cookie), op)

evaluateComparison(expr, op, response, cookie) == compareParts(Split(expr, op), op, response, cookie)

\* evaluateNumericComparison's end, on the two sides' results.
compareNumbers(l, r, op) ==
    IF l.err # "" THEN Fail(l.err)
    ELSE IF r.err # "" THEN Fail(r.err)
    ELSE CASE op = ">=" -> Ok(l.val >= r.val)
           [] op = "<=" -> Ok(l.val <= r.val)
           [] op = ">" -> Ok(l.val > r.val)
           [] op = "<" -> Ok(l.val < r.val)
           [] OTHER -> Fail("unsupported operator")

compareNumericParts(parts, op, response, cookie) ==
    IF Len(parts) # 2 THEN Fail("invalid numeric comparison")
    ELSE compareNumbers(evaluateNumericValue(TrimSpace(parts[1]), response, cookie),
                        evaluateNumericValue(TrimSpace(parts[2]), response, cookie), op)

evaluateNumericComparison(expr, op, response, cookie) ==
    compareNumericParts(Split(expr, op), op, response, cookie)

\* The operator search as it would be if > and < were looked for before >= and <=.
comparisonOperatorShortFirst(expr) ==
    IF Contains(expr, "==") THEN "=="
    ELSE IF Contains(expr, "!=") THEN "!="
    ELSE IF Contains(expr, ">") THEN ">"
    ELSE IF Contains(expr, "<") THEN "<"
    ELSE ""

\* The comparison operator evaluateSingle finds in expr, in the order it looks
\* for them; "" when it finds none.
comparisonOperator(expr) ==
    IF Contains(expr, "==") THEN "=="
    ELSE IF Contains(expr, "!=") THEN "!="
    ELSE IF Contains(expr, ">=") THEN ">="
    ELSE IF Contains(expr, "<=") THEN "<="
    ELSE IF Contains(expr, ">") /\ ~Contains(expr, ">=") THEN ">"
    ELSE IF Contains(expr, "<") /\ ~Contains(expr, "<=") THEN "<"
    ELSE ""

\* evaluateSingle's comparison cases, for the operator op it found.
comparisonOf(expr, op, response, cookie) ==
    IF op = "" THEN Fail("unsupported expression")
    ELSE IF op \in {"==", "!="} THEN evaluateComparison(expr, op, response, cookie)
    ELSE evaluateNumericComparison(expr, op, response, cookie)

RECURSIVE Evaluate(_, _, _)
\* evaluateSingle on the trimmed expression.
singleOf(expr, response, cookie) ==
    IF HasPrefix(expr, "(") /\ HasSuffix(expr, ")")
    THEN Evaluate(Trim(expr, {"(", ")"}), response, cookie)
    ELSE IF Contains(expr, "response.body.contains") THEN evaluateContains(expr, response)
    ELSE IF Contains(expr, "cookie.contains") THEN evaluateCookieContains(expr, cookie)
    ELSE comparisonOf(expr, comparisonOperator(expr), response, cookie)

evaluateSingle(expr, response, cookie) == singleOf(TrimSpace(expr), response, cookie)

\* One round of evaluateAnd's loop: r is the part's result, rest that of the
\* later rounds. Every part is evaluated; the first error returns at once.
andStep(r, rest) ==
    IF r.err # "" THEN Fail(r.err)
    ELSE IF rest.err # "" THEN Fail(rest.err)
    ELSE Ok(r.val /\ rest.val)

RECURSIVE andLoop(_, _, _, _)
andLoop(parts, k, response, cookie) ==
    IF k > Len(parts) THEN Ok(TRUE)
    ELSE andStep(evaluateSingle(TrimSpace(parts[k]), response, cookie),
                 andLoop(parts, k + 1, response, cookie))

evaluateAnd(expr, response, cookie) == andLoop(Split(expr, "&&"), 1, response, cookie)

\* One round of evaluateOr's loop as it would be without the break: every part
\* is evaluated.
orStepAll(r, rest) ==
    IF r.err # "" THEN Fail(r.err)
    ELSE IF rest.err # "" THEN Fail(rest.err)
    ELSE Ok(r.val \/ rest.val)

\* One round of evaluateOr's loop: it breaks at the first true part.
orStep(r, rest) ==
    IF r.err # "" THEN Fail(r.err)
    ELSE IF r.val THEN Ok(TRUE)
    ELSE rest

RECURSIVE orLoop(_, _, _, _)
orLoop(parts, k, response, cookie) ==
    IF k > Len(parts) THEN Ok(FALSE)
    ELSE orStep(evaluateSingle(TrimSpace(parts[k]), response, cookie),
                orLoop(parts, k + 1, response, cookie))

evaluateOr(expr, response, cookie) == orLoop(Split(expr, "||"), 1, response, cookie)

\* Evaluate on the expression without its comment and outer white space.
clauseOf(expr, response, cookie) ==
    IF Contains(expr, "||") THEN evaluateOr(expr, response, cookie)
    ELSE IF Contains(expr, "&&") THEN evaluateAnd(expr, response, cookie)
    ELSE evaluateSingle(expr, response, cookie)

Evaluate(expr, response, cookie) == clauseOf(TrimSpace(removeComments(expr)), response, cookie)

\* ------------------------------------------------ CookieExtractor (cookie.go)
\* A compiled pattern of the regular expressions explored here: a sequence of
\* atoms [set, plus, open, close]: a character set, whether "+" follows it, and
\* whether a capture group opens before / closes after it. Supported syntax:
\* literal characters, \d, \w, a trailing "+", and one "(...)" group; a pattern
\* whose parentheses do not balance does not compile.
RECURSIVE parseAtoms(_, _, _)
parseAtoms(p, i, open) ==
    IF i > Len(p) THEN (IF open THEN [err |-> "missing )", val |-> <<>>] ELSE [err |-> "", val |-> <<>>])
    ELSE IF Ch(p, i) = "(" THEN
         (IF open THEN [err |-> "nested group", val |-> <<>>]
          ELSE LET r == parseAtoms(p, i + 1, TRUE)
               IN  IF r.err # "" THEN r
                   ELSE IF Len(r.val) = 0 THEN [err |-> "empty group", val |-> <<>>]
                   ELSE [err |-> "", val |-> <<[r.val[1] EXCEPT !.open = TRUE]>> \o Tail(r.val)])
    ELSE IF Ch(p, i) = ")" THEN [err |-> "unexpected )", val |-> <<>>]
    ELSE IF Ch(p, i) = "+" THEN [err |-> "missing argument to +", val |-> <<>>]
    ELSE LET esc == Ch(p, i) = "\\"
             n == IF esc THEN i + 2 ELSE i + 1
             set == IF ~esc THEN {Ch(p, i)}
                    ELSE IF MatchAt(p, "d", i + 1) THEN Digits
                    ELSE IF MatchAt(p, "w", i + 1) THEN WordChars
                    ELSE IF i + 1 <= Len(p) THEN {Ch(p, i + 1)} ELSE {}
             plus == MatchAt(p, "+", n)
             m == IF plus THEN n + 1 ELSE n
             close == open /\ MatchAt(p, ")", m)
             r == parseAtoms(p, IF close THEN m + 1 ELSE m, open /\ ~close)
         IN  IF esc /\ i + 1 > Len(p) THEN [err |-> "trailing backslash", val |-> <<>>]
             ELSE IF r.err # "" THEN r
             ELSE [err |-> "", val |-> <<[set |-> set, plus |-> plus, open |-> FALSE, close |-> close]>> \o r.val]

\* regexp.Compile.
regexpCompile(pattern) == parseAtoms(pattern, 1, FALSE)

\* The preferred (greedy, leftmost-first) match of atoms[k..] at position pos of
\* s: [ok, ends], ends[j] the position after atom k+j-1.
RECURSIVE matchFrom(_, _, _, _)
matchFrom(atoms, k, s, pos) ==
    IF k > Len(atoms) THEN [ok |-> TRUE, ends |-> <<>>]
    ELSE LET a == atoms[k]
             runs == {n \in 1..(Len(s) - pos + 1) : \A j \in 0..(n - 1) : Ch(s, pos + j) \in a.set}
             lens == IF a.plus THEN runs ELSE runs \cap {1}
             good == {n \in lens : matchFrom(atoms, k + 1, s, pos + n).ok}
         IN  IF good = {} THEN [ok |-> FALSE, ends |-> <<>>]
             ELSE LET n == CHOOSE x \in good : \A y \in good : x >= y
                  IN  [ok |-> TRUE, ends |-> <<pos + n>> \o matchFrom(atoms, k + 1, s, pos + n).ends]

\* regex.FindStringSubmatch(s): <<>> when nothing matches, else the whole match
\* followed by the capture group, when the pattern has one.
FindStringSubmatch(atoms, s) ==
    LET starts == {p \in 1..(Len(s) + 1) : matchFrom(atoms, 1, s, p).ok}
    IN  IF starts = {} THEN <<>>
        ELSE LET p == CHOOSE x \in starts : \A y \in starts : x <= y
                 ends == matchFrom(atoms, 1, s, p).ends
                 last == IF Len(atoms) = 0 THEN p ELSE ends[Len(atoms)]
                 os == {k \in 1..Len(atoms) : atoms[k].open}
                 cs == {k \in 1..Len(atoms) : atoms[k].close}
             IN  IF os = {} THEN <<SubSeq(s, p, last - 1)>>
                 ELSE LET o == CHOOSE k \in os : TRUE
                          c == CHOOSE k \in cs : TRUE
                          from == IF o = 1 THEN p ELSE ends[o - 1]
                      IN  <<SubSeq(s, p, last - 1), SubSeq(s, from, ends[c] - 1)>>

convertRustRegex(pattern) ==
    TrimSuffix(TrimSuffix(TrimPrefix(TrimPrefix(pattern, "r'"), "r\""), "'"), "\"")

ExtractCookie(expr, response) ==
    IF response.nil THEN [err |-> "empty response", val |-> ""]
    ELSE IF Contains(expr, "response.headers.get") THEN
         LET m == CallArg(expr, "response.headers.get")
             hits == HeaderHits(response.Headers, m.arg)
         IN  IF ~m.found THEN [err |-> "cannot parse headers.get", val |-> ""]
             ELSE IF hits # {} THEN Ok(Join(response.Headers[CHOOSE k \in hits : TRUE], "; "))
             ELSE IF Len(response.Cookies) > 0 THEN Ok(Join(response.Cookies, "; "))
             ELSE Ok("")
    ELSE IF Contains(expr, "response.body.extract") THEN
         LET m == CallArg(expr, "response.body.extract")
             regex == regexpCompile(convertRustRegex(m.arg))
             match == FindStringSubmatch(regex.val, response.Body)
         IN  IF ~m.found THEN [err |-> "cannot parse body.extract", val |-> ""]
             ELSE IF regex.err # "" THEN [err |-> "invalid regular expression", val |-> ""]
             ELSE IF Len(match) > 1 THEN Ok(match[2])
             ELSE Ok("")
    ELSE IF expr = "response.extracted_cookie"
         THEN [err |-> "extracted_cookie comes from the execution context", val |-> ""]
    ELSE [err |-> "unsupported cookie extraction expression", val |-> ""]

ValidateCookie(expr, cookie) ==
    IF expr = "" THEN Ok(TRUE)
    ELSE Evaluate(expr, MkResponse(200, NoHeaders, "", <<>>), cookie)

\* --------------------------------------- Rule accessors (unnamed/part_000)
\* The timeout floor, in seconds.
MinTimeout == 60

\* GetTimeout as it would be if it returned the floor for every declared value.
GetTimeoutFloorOnly(r) == MinTimeout

\* GetTimeout, in seconds.
GetTimeout(r) ==
    IF r.Timeout <= 0 THEN MinTimeout
    ELSE IF r.Timeout < MinTimeout THEN MinTimeout
    ELSE r.Timeout

\* GetRetryCount as it would be with "no retry" as the default.
GetRetryCountZero(r) == IF r.RetryCount <= 0 THEN 0 ELSE r.RetryCount

GetRetryCount(r) == IF r.RetryCount <= 0 THEN 1 ELSE r.RetryCount

GetBody(r) == IF Len(r.Body) = 0 THEN "" ELSE r.Body[1]

\* --------------------------------------------------- HTTPClient (client.go)
\* The use_cookie value that stands for the stored cookie.
ExtractedCookie == "response.extracted_cookie"

\* c.cookies: a map with at most the key "extracted".
NoCookies == [k \in {} |-> ""]

StoreCookie(cookies, cookieStr) == [k \in DOMAIN cookies \cup {"extracted"} |-> cookieStr]

GetStoredCookie(cookies) == IF "extracted" \in DOMAIN cookies THEN cookies["extracted"] ELSE ""

\* ExecuteRequest's URL: the base without its trailing slash, then the path with
\* a leading slash.
JoinURL(baseURL, path) ==
    TrimSuffix(baseURL, "/") \o (IF HasPrefix(path, "/") THEN path ELSE "/" \o path)

\* ExecuteRequest's floor on opts.Timeout, in seconds.
FloorTimeout(t) == IF t < MinTimeout THEN MinTimeout ELSE t

\* A header map without entries (a rule or options that declare no headers).
NoRuleHeaders == [k \in {} |-> ""]

\* req.Header.Set(k, v), for a name k in its canonical form.
SetHeader(headers, k, v) == [n \in DOMAIN headers \cup {k} |-> IF n = k THEN v ELSE headers[n]]

\* The use_cookie handling as it would be if every non-empty value were sent as
\* it is written.
useCookieHeaderVerbatim(headers, useCookie, stored) ==
    IF useCookie = "" THEN headers ELSE SetHeader(headers, "Cookie", useCookie)

\* The use_cookie handling on a request that carries headers (client.go 127-140).
useCookieHeader(headers, useCookie, stored) ==
    IF useCookie = "" THEN headers
    ELSE IF useCookie = ExtractedCookie
    THEN (IF stored # "" THEN SetHeader(headers, "Cookie", stored) ELSE headers)
    ELSE SetHeader(headers, "Cookie", useCookie)

\* The headers of an attempt's request: opts.Headers, then the use_cookie
\* handling (client.go 122-140).
RequestHeaders(o, cookies) == useCookieHeader(o.Headers, o.UseCookie, GetStoredCookie(cookies))

\* http.NewRequest rejects a method that is not a token (net/http validMethod);
\* an empty method means GET.
TokenChars == WordChars \cup CharsOf("!#$%&'*+-.^|~")

NewRequestFails(method) == method # "" /\ CharsOf(method) \ TokenChars # {}

\* The delay as it would be without the growing factor.
RetryDelayFixed(i) == 2

\* The delay before attempt i (i > 0), in seconds.
RetryDelay(i) == i * 2

\* The returned error as it would be without the last attempt's error.
ExhaustedErrorBare(retryCount, lastErr) ==
    "request failed, retried " \o Itoa(retryCount) \o " times"

\* The error ExecuteRequest returns once the loop ends.
ExhaustedError(retryCount, lastErr) ==
    "request failed, retried " \o Itoa(retryCount) \o " times: " \o lastErr

\* ------------------------------------------------------- Engine (engine.go)
\* Lookup as it would be if a missing result counted as true.
LookupMissingTrue(results, name) ==
    IF name \in DOMAIN results /\ ~results[name] THEN "false" ELSE "true"

Lookup(results, name) ==
    IF name \in DOMAIN results /\ results[name] THEN "true" ELSE "false"

\* The last position of the run of \w characters that starts at i.
WordEnd(s, i) ==
    LET stops == {k \in i..Len(s) : Ch(s, k) \notin WordChars}
    IN  IF stops = {} THEN Len(s) ELSE (CHOOSE k \in stops : \A m \in stops : k <= m) - 1

\* re1.ReplaceAllStringFunc for re1 = (\w+)\(\) , from position i on.
RECURSIVE replaceCalls(_, _, _)
replaceCalls(s, i, results) ==
    IF i > Len(s) THEN ""
    ELSE IF Ch(s, i) \notin WordChars THEN Ch(s, i) \o replaceCalls(s, i + 1, results)
    ELSE LET q == WordEnd(s, i)
         IN  IF MatchAt(s, "()", q + 1)
             THEN Lookup(results, SubSeq(s, i, q)) \o replaceCalls(s, q + 3, results)
             ELSE SubSeq(s, i, q) \o replaceCalls(s, q + 1, results)

\* Whether w matches r\d+ as a whole.
IsShortRuleName(w) ==
    Len(w) >= 2 /\ Ch(w, 1) = "r" /\ CharsOf(SubSeq(w, 2, Len(w))) \subseteq Digits

\* The second pass as it would be if it replaced nothing.
replaceBareNever(s, i, results) == SubSeq(s, i, Len(s))

\* re2.ReplaceAllStringFunc for re2 = \b(r\d+)\b , from position i on: a match
\* is a whole run of \w characters.
RECURSIVE replaceBare(_, _, _)
replaceBare(s, i, results) ==
    IF i > Len(s) THEN ""
    ELSE IF Ch(s, i) \notin WordChars THEN Ch(s, i) \o replaceBare(s, i + 1, results)
    ELSE LET q == WordEnd(s, i)
             w == SubSeq(s, i, q)
         IN  (IF IsShortRuleName(w) THEN Lookup(results, w) ELSE w)
                 \o replaceBare(s, q + 1, results)

\* The expression after both substitution passes (engine.go 126-154).
Substituted(expr, results) ==
    replaceBare(replaceCalls(TrimSpace(removeComments(expr)), 1, results), 1, results)

\* The clause logic as it would be if one true part were enough for "&&".
evaluateSubstitutedAny(expr) ==
    IF Contains(expr, "&&")
    THEN \E k \in 1..Len(Split(expr, "&&")) : TrimSpace(Split(expr, "&&")[k]) = "true"
    ELSE IF Contains(expr, "||")
    THEN \E k \in 1..Len(Split(expr, "||")) : TrimSpace(Split(expr, "||")[k]) = "true"
    ELSE expr = "true"

\* The clause logic on the substituted expression (engine.go 156-180).
evaluateSubstituted(expr) ==
    IF Contains(expr, "&&")
    THEN LET parts == Split(expr, "&&")
         IN  ~\E k \in 1..Len(parts) : TrimSpace(parts[k]) = "false"
    ELSE IF Contains(expr, "||")
    THEN LET parts == Split(expr, "||")
         IN  \E k \in 1..Len(parts) : TrimSpace(parts[k]) = "true"
    ELSE expr = "true"

evaluateMainExpression(expr, results) == Ok(evaluateSubstituted(Substituted(expr, results)))

\* The verdict as it would be if one successful rule were enough.
executeVerdictAny(expression, results) ==
    IF expression # "" THEN evaluateMainExpression(expression, results)
    ELSE Ok(\E n \in DOMAIN results : results[n])

\* Execute after the rule loop (engine.go 49-61).
executeVerdict(expression, results) ==
    IF expression # "" THEN evaluateMainExpression(expression, results)
    ELSE Ok(\A n \in DOMAIN results : results[n])

\* The extraction step as it would be if the first stored value were kept.
storeExtractedOnce(rule, cookies, x) ==
    IF rule.ExtractCookie # "" /\ x.err = "" /\ x.val # "" /\ GetStoredCookie(cookies) = ""
    THEN StoreCookie(cookies, x.val)
    ELSE cookies

\* executeRule's extraction step (engine.go 83-89): the cookie store it leaves,
\* x being ExtractCookie's result.
storeExtracted(rule, cookies, x) ==
    IF rule.ExtractCookie # "" /\ x.err = "" /\ x.val # "" THEN StoreCookie(cookies, x.val)
    ELSE cookies

\* The cookie the validation step validates (engine.go 93-99).
cookieToValidate(rule, cookies) ==
    IF rule.UseCookie # "" /\ rule.UseCookie # ExtractedCookie THEN rule.UseCookie
    ELSE GetStoredCookie(cookies)

\* The response-validation step as it would be if an expression that cannot be
\* evaluated counted as a false outcome.
expressionStepLenient(rule, e) ==
    IF rule.Expression # "" /\ e.err = "" /\ ~e.val
    THEN [val |-> FALSE, err |-> "rule expression not satisfied: " \o rule.Expression]
    ELSE [val |-> rule.Expression = "" \/ e.err = "", err |-> ""]

\* executeRule's response-validation step (engine.go 109-121), e being
\* Evaluate's result.
expressionStep(rule, e) ==
    IF rule.Expression # "" /\ e.err # ""
    THEN [val |-> FALSE, err |-> "expression evaluation failed: " \o e.err]
    ELSE IF rule.Expression # "" /\ ~e.val
    THEN [val |-> FALSE, err |-> "rule expression not satisfied: " \o rule.Expression]
    ELSE [val |-> TRUE, err |-> ""]

\* The cookie-validation step as it would be if a validation that does not hold
\* were returned as a false outcome without an error.
validationStepRecorded(rule, v, e) ==
    IF rule.CookieExpression # "" /\ v.err # ""
    THEN [val |-> FALSE, err |-> "cookie validation failed: " \o v.err]
    ELSE IF rule.CookieExpression # "" /\ ~v.val
    THEN [val |-> FALSE, err |-> ""]
    ELSE e

\* executeRule's cookie-validation step (engine.go 91-107), v being
\* ValidateCookie's result and e the result of the step after it.
validationStep(rule, v, e) ==
    IF rule.CookieExpression # "" /\ v.err # ""
    THEN [val |-> FALSE, err |-> "cookie validation failed: " \o v.err]
    ELSE IF rule.CookieExpression # "" /\ ~v.val
    THEN [val |-> FALSE, err |-> "cookie validation not passed"]
    ELSE e

\* executeRule after the extraction step, with the cookie store it left.
validateWith(rule, response, stored) ==
    validationStep(rule,
                   ValidateCookie(rule.CookieExpression, cookieToValidate(rule, stored)),
                   expressionStep(rule, Evaluate(rule.Expression, response, GetStoredCookie(stored))))

\* executeRule after a successful request as it would be if a failed extraction
\* were returned as the rule's error.
ruleResultStrict(rule, response, cookies) ==
    IF rule.ExtractCookie # "" /\ ExtractCookie(rule.ExtractCookie, response).err # ""
    THEN [val |-> FALSE, err |-> "cookie extraction failed"]
    ELSE validateWith(rule, response,
                      storeExtracted(rule, cookies, ExtractCookie(rule.ExtractCookie, response)))

\* executeRule after a successful request (engine.go 83-121): its (bool, error)
\* result and the cookie store it leaves.
ruleResult(rule, response, cookies) ==
    validateWith(rule, response,
                 storeExtracted(rule, cookies, ExtractCookie(rule.ExtractCookie, response)))

ruleCookies(rule, response, cookies) ==
    storeExtracted(rule, cookies, ExtractCookie(rule.ExtractCookie, response))

\* Execute's wrapping of executeRule's error (engine.go 44).
RuleError(ruleName, err) == "rule " \o ruleName \o " failed: " \o err

\* ------------------------------------------------------------------ inputs
\* The target's base URL given to NewEngine.
BaseURL == "http://target/"

\* Responses the target may give.
RespLogin ==
    MkResponse(200, [k \in {"Set-Cookie"} |-> <<"sid=1", "u=admin">>],
               "welcome admin", <<"sid=1", "u=admin">>)

RespPage == MkResponse(200, [k \in {"Content-Type"} |-> <<"text/html">>], "login token=ab12;", <<>>)

RespMissing == MkResponse(404, NoHeaders, "", <<>>)

Responses == {RespLogin, RespPage, RespMissing}

MkRule(method, path, timeout, retry, extract, use, cookieExpr, expr) ==
    [Method |-> method, Path |-> path, Timeout |-> timeout, RetryCount |-> retry,
     Headers |-> NoRuleHeaders, Body |-> <<>>, ExtractCookie |-> extract, UseCookie |-> use,
     CookieExpression |-> cookieExpr, Expression |-> expr]

\* The rules configurations are built from.
RuleCatalog ==
    { MkRule("GET", "/", 0, 0, "", "", "", ""),
      MkRule("GET", "robots.txt", 30, -1, "", "", "", "response.status==200"),
      MkRule("POST", "/login", 10, MaxRetry, "response.headers.get('Set-Cookie')", "", "",
             "response.status==200 && response.body.contains('admin')"),
      MkRule("GET", "/admin", 90, 1, "response.body.extract('(')", "session_id=abc123",
             "cookie.contains('session_id')", "response.status==200"),
      MkRule("GET", "/me", 60, 1, "response.body.extract('token=(\\w+)')", ExtractedCookie,
             "cookie.contains('sid')", ""),
      MkRule("GET", "/x", -1, 0, "response.cookie", "", "", "response.status##"),
      MkRule("G T", "/", 0, 1, "", "", "cookie.contains(sid)", "") }

\* Rule identifiers, by position of declaration.
RuleNames == <<"r0", "login", "r1", "r2">>

\* Aggregate expressions of the explored configurations ("" declares none).
Expressions == {"", "r0() && login()"}

SeqsUpTo(S, n) == UNION {[1..k -> S] : k \in 0..n}

Range(f) == {f[x] : x \in DOMAIN f}

\* ------------------------------------------------------------------- state
VARIABLES
    config,       \* POCConfig: Rules (a map from identifiers to rules), Expression
    declared,     \* the identifiers in the order the input declares them
    ruleResults,  \* Engine.ruleResults
    cookies,      \* HTTPClient.cookies
    pc,           \* "rules": Execute's loop; "loop", "send": ExecuteRequest's
                  \* loop; "returned": ExecuteRequest returned; "done"
    started,      \* the identifiers executeRule was called for, in call order
    cur,          \* the identifier of the rule being executed
    opts,         \* ExecuteRequest's opts, with its url
    i,            \* ExecuteRequest's loop counter
    lastErr,      \* ExecuteRequest's lastErr
    trace,        \* what the current ExecuteRequest call did: sleeps and attempts
    response,     \* the Response ExecuteRequest returned
    reqErr,       \* the error ExecuteRequest returned
    verdict,      \* Execute's bool
    err,          \* Execute's error
    written,      \* the identifiers written to ruleResults, in writing order
    aggregated,   \* whether evaluateMainExpression was called
    engines       \* the Engines of a program that runs several side by side

vars == <<config, declared, ruleResults, cookies, pc, started, cur, opts, i, lastErr,
          trace, response, reqErr, verdict, err, written, aggregated, engines>>

NoResults == [n \in {} |-> FALSE]

NoOpts ==
    [Method |-> "", Path |-> "", Headers |-> NoRuleHeaders, Body |-> "", UseCookie |-> "",
     Timeout |-> 0, RetryCount |-> 0, url |-> ""]

Sleep(seconds) ==
    [ev |-> "sleep", n |-> seconds, sent |-> FALSE, Headers |-> NoRuleHeaders, Timeout |-> 0]

\* Attempt k: whether its request was created and sent, and then the headers it
\* carried and the timeout of the client that sent it.
Attempt(k, sent, headers, timeout) ==
    [ev |-> "attempt", n |-> k, sent |-> sent, Headers |-> headers, Timeout |-> timeout]

\* The configurations: up to MaxRules rules of the catalogue, declared under
\* the first identifiers of RuleNames.
Configs ==
    {[rules |-> rs, Expression |-> e] : rs \in SeqsUpTo(RuleCatalog, MaxRules), e \in Expressions}

\* NewEngine (engine.go 19-30, client.go 23-40) on a loaded configuration.
Init ==
    /\ \E c \in Configs :
        /\ declared = SubSeq(RuleNames, 1, Len(c.rules))
        /\ config = [Rules |-> [n \in Range(SubSeq(RuleNames, 1, Len(c.rules))) |->
                                    c.rules[CHOOSE k \in 1..Len(c.rules) : RuleNames[k] = n]],
                     Expression |-> c.Expression]
    /\ ruleResults = NoResults
    /\ cookies = NoCookies
    /\ pc = "rules"
    /\ started = <<>>
    /\ cur = ""
    /\ opts = NoOpts
    /\ i = 0
    /\ lastErr = ""
    /\ trace = <<>>
    /\ response = NilResponse
    /\ reqErr = ""
    /\ verdict = FALSE
    /\ err = ""
    /\ written = <<>>
    /\ aggregated = FALSE
    /\ engines = <<>>

\* ExecuteRequest up to its loop (client.go 67-96), on the options o: the
\* options and the url its loop works with.
executeRequestOptions(o) ==
    [Method |-> o.Method, Path |-> o.Path, Headers |-> o.Headers, Body |-> o.Body,
     UseCookie |-> o.UseCookie,
     Timeout |-> FloorTimeout(o.Timeout), RetryCount |-> o.RetryCount,
     url |-> JoinURL(BaseURL, o.Path)]

callExecuteRequest(o) ==
    /\ opts' = executeRequestOptions(o)
    /\ i' = 0
    /\ lastErr' = ""
    /\ trace' = <<>>
    /\ response' = NilResponse
    /\ reqErr' = ""
    /\ pc' = "loop"

\* The options executeRule builds (engine.go 67-75).
RuleOptions(rule) ==
    [Method |-> rule.Method, Path |-> rule.Path, Headers |-> rule.Headers, Body |-> GetBody(rule),
     UseCookie |-> rule.UseCookie, Timeout |-> GetTimeout(rule),
     RetryCount |-> GetRetryCount(rule)]

\* Execute's range over the Rules map takes the next rule: Go fixes no order
\* for a map, so any rule not yet taken can come next (engine.go 41-42, 65-78).
BeginRule(name) ==
    /\ pc = "rules"
    /\ name \in DOMAIN config.Rules
    /\ name \notin Range(started)
    /\ started' = Append(started, name)
    /\ cur' = name
    /\ callExecuteRequest(RuleOptions(config.Rules[name]))
    /\ UNCHANGED <<engines, config, declared, ruleResults, cookies, verdict, err, written, aggregated>>

\* The loop ends: the budget is used up (client.go 97, 194).
LoopExit ==
    /\ pc = "loop"
    /\ i > opts.RetryCount
    /\ reqErr' = ExhaustedError(opts.RetryCount, lastErr)
    /\ pc' = "returned"
    /\ UNCHANGED <<engines, config, declared, ruleResults, cookies, started, cur, opts, i, lastErr,
                   trace, response, verdict, err, written, aggregated>>

\* The sleep before a re-attempt (client.go 98-104).
BackoffWait ==
    /\ pc = "loop"
    /\ i <= opts.RetryCount
    /\ i > 0
    /\ trace' = Append(trace, Sleep(RetryDelay(i)))
    /\ pc' = "send"
    /\ UNCHANGED <<engines, config, declared, ruleResults, cookies, started, cur, opts, i, lastErr,
                   response, reqErr, verdict, err, written, aggregated>>

\* The loop body is at the request's construction.
AtAttempt == (pc = "loop" /\ i = 0 /\ i <= opts.RetryCount) \/ pc = "send"

\* http.NewRequest fails (client.go 113-120).
AttemptNotCreated ==
    /\ AtAttempt
    /\ NewRequestFails(opts.Method)
    /\ trace' = Append(trace, Attempt(i, FALSE, NoRuleHeaders, 0))
    /\ lastErr' = "creating the request failed"
    /\ i' = i + 1
    /\ pc' = "loop"
    /\ UNCHANGED <<engines, config, declared, ruleResults, cookies, started, cur, opts, response,
                   reqErr, verdict, err, written, aggregated>>

\* The request is sent and client.Do or io.ReadAll fails (client.go 154-178).
AttemptFails(why) ==
    /\ AtAttempt
    /\ ~NewRequestFails(opts.Method)
    /\ trace' = Append(trace, Attempt(i, TRUE, RequestHeaders(opts, cookies), opts.Timeout))
    /\ lastErr' = why
    /\ i' = i + 1
    /\ pc' = "loop"
    /\ UNCHANGED <<engines, config, declared, ruleResults, cookies, started, cur, opts, response,
                   reqErr, verdict, err, written, aggregated>>

\* The request is sent and its response is read (client.go 154-191).
AttemptSucceeds(r) ==
    /\ AtAttempt
    /\ ~NewRequestFails(opts.Method)
    /\ trace' = Append(trace, Attempt(i, TRUE, RequestHeaders(opts, cookies), opts.Timeout))
    /\ response' = r
    /\ pc' = "returned"
    /\ UNCHANGED <<engines, config, declared, ruleResults, cookies, started, cur, opts, i, lastErr,
                   reqErr, verdict, err, written, aggregated>>

\* e.ruleResults[ruleName] = success (engine.go 46).
record(results, ruleName, success) ==
    [n \in DOMAIN results \cup {ruleName} |-> IF n = ruleName THEN success ELSE results[n]]

\* The request's failure as it would be if it were recorded as a false outcome.
RuleRequestFailsRecorded ==
    /\ pc = "returned"
    /\ cur # ""
    /\ reqErr # ""
    /\ ruleResults' = record(ruleResults, cur, FALSE)
    /\ written' = Append(written, cur)
    /\ pc' = "rules"
    /\ UNCHANGED <<engines, config, declared, cookies, started, cur, opts, i, lastErr,
                   trace, response, reqErr, verdict, err, aggregated>>

\* ExecuteRequest failed: executeRule and Execute return the error
\* (engine.go 78-81, 43-45).
RuleRequestFails ==
    /\ pc = "returned"
    /\ cur # ""
    /\ reqErr # ""
    /\ verdict' = FALSE
    /\ err' = RuleError(cur, "HTTP request failed: " \o reqErr)
    /\ pc' = "done"
    /\ UNCHANGED <<engines, config, declared, ruleResults, cookies, started, cur, opts, i, lastErr,
                   trace, response, reqErr, written, aggregated>>

\* executeRule goes on after the response and returns an error, which Execute
\* returns (engine.go 83-119, 43-45).
RuleFails ==
    /\ pc = "returned"
    /\ cur # ""
    /\ reqErr = ""
    /\ ruleResult(config.Rules[cur], response, cookies).err # ""
    /\ cookies' = ruleCookies(config.Rules[cur], response, cookies)
    /\ verdict' = FALSE
    /\ err' = RuleError(cur, ruleResult(config.Rules[cur], response, cookies).err)
    /\ pc' = "done"
    /\ UNCHANGED <<engines, config, declared, ruleResults, started, cur, opts, i, lastErr,
                   trace, response, reqErr, written, aggregated>>

\* executeRule goes on after the response and returns without an error; Execute
\* records its result (engine.go 83-121, 46).
RuleRecorded ==
    /\ pc = "returned"
    /\ cur # ""
    /\ reqErr = ""
    /\ ruleResult(config.Rules[cur], response, cookies).err = ""
    /\ cookies' = ruleCookies(config.Rules[cur], response, cookies)
    /\ ruleResults' = record(ruleResults, cur, ruleResult(config.Rules[cur], response, cookies).val)
    /\ written' = Append(written, cur)
    /\ pc' = "rules"
    /\ UNCHANGED <<engines, config, declared, started, cur, opts, i, lastErr,
                   trace, response, reqErr, verdict, err, aggregated>>

\* The rule loop is over: Execute returns the verdict (engine.go 49-61).
Finish ==
    /\ pc = "rules"
    /\ Range(started) = DOMAIN config.Rules
    /\ verdict' = executeVerdict(config.Expression, ruleResults).val
    /\ err' = executeVerdict(config.Expression, ruleResults).err
    /\ aggregated' = (config.Expression # "")
    /\ pc' = "done"
    /\ UNCHANGED <<engines, config, declared, ruleResults, cookies, started, cur, opts, i, lastErr,
                   trace, response, reqErr, written>>

\* The failures of a sent request: client.Do's and io.ReadAll's.
SendErrors == {"request failed", "reading the response body failed"}

Next ==
    \/ \E name \in Range(RuleNames) : BeginRule(name)
    \/ LoopExit
    \/ BackoffWait
    \/ AttemptNotCreated
    \/ \E why \in SendErrors : AttemptFails(why)
    \/ \E r \in Responses : AttemptSucceeds(r)
    \/ RuleRequestFails
    \/ RuleFails
    \/ RuleRecorded
    \/ Finish

\* One Execute call on a new Engine.
Spec == Init /\ [][Next]_vars

\* Execute is called again on the Engine after it returned: the call starts its
\* range over the rules anew; nothing in Execute (engine.go 39-62) or in
\* ExecuteRequest assigns a new map to ruleResults or clears the client's
\* cookies, which NewEngine and NewHTTPClient alone create.
ExecuteAgain ==
    /\ pc = "done"
    /\ pc' = "rules"
    /\ started' = <<>>
    /\ written' = <<>>
    /\ cur' = ""
    /\ verdict' = FALSE
    /\ err' = ""
    /\ aggregated' = FALSE
    /\ UNCHANGED <<engines, config, declared, ruleResults, cookies, opts, i, lastErr,
                   trace, response, reqErr>>

NextAgain == Next \/ ExecuteAgain

\* Execute calls, one after the other, on one Engine.
SpecAgain == Init /\ [][NextAgain]_vars

\* ---------------------------------------------- a direct ExecuteRequest call
\* The options of the explored calls: every retry budget from -1 to MaxRetry.
RequestInputs ==
    [Method : {"GET", "G T"}, Path : {"/a", "a"}, Body : {""},
     Headers : {NoRuleHeaders, [k \in {"Cookie"} |-> "h=1"]},
     UseCookie : {"", ExtractedCookie, "k=v"}, Timeout : {0, 30, 90},
     RetryCount : -1..MaxRetry]

\* A client (NewHTTPClient), with or without a stored cookie, on which
\* ExecuteRequest is called.
InitRequest ==
    /\ config = [Rules |-> [n \in {} |-> 0], Expression |-> ""]
    /\ declared = <<>>
    /\ ruleResults = NoResults
    /\ cookies \in {NoCookies, StoreCookie(NoCookies, "sid=1")}
    /\ pc = "loop"
    /\ started = <<>>
    /\ cur = ""
    /\ \E o \in RequestInputs : opts = executeRequestOptions(o)
    /\ i = 0
    /\ lastErr = ""
    /\ trace = <<>>
    /\ response = NilResponse
    /\ reqErr = ""
    /\ verdict = FALSE
    /\ err = ""
    /\ written = <<>>
    /\ aggregated = FALSE
    /\ engines = <<>>

NextRequest ==
    \/ LoopExit
    \/ BackoffWait
    \/ AttemptNotCreated
    \/ \E why \in SendErrors : AttemptFails(why)
    \/ \E r \in Responses : AttemptSucceeds(r)

\* One ExecuteRequest call.
SpecRequest == InitRequest /\ [][NextRequest]_vars

\* One ExecuteRequest call that keeps running: a sleep ends, and an attempt ends
\* with a response or an error (at the latest when the client's timeout
\* expires), so the loop always takes its next step.
FairSpecRequest == SpecRequest /\ WF_vars(NextRequest)

\* ------------------------------------- Execute's verdict after the rule loop
\* Largest number of rule references joined in an explored aggregate expression.
MaxTerms == 2

\* Identifiers a rule set or an aggregate expression may use.
VerdictNames == {"r0", "r1", "login"}

\* A reference to a rule: the call form name() or the bare name.
Ref(name, form) == IF form = "call" THEN name \o "()" ELSE name

\* The aggregate expression that joins refs with op.
Aggregate(refs, op) == Join(refs, " " \o op \o " ")

RefsOf(names, form) == [k \in DOMAIN names |-> Ref(names[k], form)]

Refs == {Ref(n, f) : n \in VerdictNames, f \in {"call", "bare"}}

Aggregates ==
    {""} \cup {Aggregate(rs, op) : rs \in SeqsUpTo(Refs, MaxTerms) \ {<<>>}, op \in {"&&", "||"}}

\* The order RuleNames gives the identifiers of D.
RECURSIVE Ordered(_, _)
Ordered(D, k) ==
    IF k > Len(RuleNames) THEN <<>>
    ELSE (IF RuleNames[k] \in D THEN <<RuleNames[k]>> ELSE <<>>) \o Ordered(D, k + 1)

\* Execute at the end of its rule loop: an outcome is recorded for every rule.
InitVerdict ==
    /\ \E D \in SUBSET VerdictNames :
        /\ \E e \in Aggregates :
               config = [Rules |-> [n \in D |-> MkRule("GET", "/", 0, 0, "", "", "", "")],
                         Expression |-> e]
        /\ declared = Ordered(D, 1)
        /\ ruleResults \in [D -> BOOLEAN]
        /\ started = Ordered(D, 1)
        /\ written = Ordered(D, 1)
    /\ cookies = NoCookies
    /\ pc = "rules"
    /\ cur = ""
    /\ opts = NoOpts
    /\ i = 0
    /\ lastErr = ""
    /\ trace = <<>>
    /\ response = NilResponse
    /\ reqErr = ""
    /\ verdict = FALSE
    /\ err = ""
    /\ aggregated = FALSE
    /\ engines = <<>>

NextVerdict == Finish

\* The end of Execute, for every map of recorded outcomes.
SpecVerdict == InitVerdict /\ [][NextVerdict]_vars

\* Aggregate expressions of three call-form references that hold both operators.
MixedAggregates ==
    {Ref(a, "call") \o " " \o op[1] \o " " \o Ref(b, "call") \o " " \o op[2] \o " " \o Ref(c, "call") :
        a \in VerdictNames, b \in VerdictNames, c \in VerdictNames,
        op \in {<<"||", "&&">>, <<"&&", "||">>}}

\* Execute at the end of its rule loop, with an aggregate that holds both
\* operators.
InitMixed ==
    /\ \E D \in SUBSET VerdictNames :
        /\ \E e \in MixedAggregates :
               config = [Rules |-> [n \in D |-> MkRule("GET", "/", 0, 0, "", "", "", "")],
                         Expression |-> e]
        /\ declared = Ordered(D, 1)
        /\ ruleResults \in [D -> BOOLEAN]
        /\ started = Ordered(D, 1)
        /\ written = Ordered(D, 1)
    /\ cookies = NoCookies
    /\ pc = "rules"
    /\ cur = ""
    /\ opts = NoOpts
    /\ i = 0
    /\ lastErr = ""
    /\ trace = <<>>
    /\ response = NilResponse
    /\ reqErr = ""
    /\ verdict = FALSE
    /\ err = ""
    /\ aggregated = FALSE
    /\ engines = <<>>

\* The end of Execute on aggregates that hold both operators.
SpecMixed == InitMixed /\ [][NextVerdict]_vars

\* ------------------------------------------------ two Engines side by side
\* NewEngine (engine.go 19-30): an Engine with its own result map and, in its
\* own HTTPClient (client.go 23-40), its own cookie store; seen is the history
\* of its run: the rules taken and how their requests ended.
NewEngineState(c) ==
    [config |-> c, ruleResults |-> NoResults, cookies |-> NoCookies, started |-> <<>>,
     pc |-> "rules", verdict |-> FALSE, err |-> "", seen |-> <<>>]

\* How a rule's ExecuteRequest call can end: with a response, or with its error.
RequestOutcomes ==
    {[failed |-> FALSE, response |-> r, err |-> ""] : r \in Responses}
        \cup {[failed |-> TRUE, response |-> NilResponse, err |-> "request failed"]}

\* The cookie store as it would be if every Engine's client read the first
\* Engine's store.
clientCookiesShared(engs, e) == engs[1].cookies

\* The cookie store Engine e's client reads: its own (client.go 35).
clientCookies(engs, e) == engs[e].cookies

\* Execute's loop body for the rule name (engine.go 42-46) when the request
\* failed: Execute returns the error.
requestFailedStep(st, name, out) ==
    [st EXCEPT !.started = Append(@, name),
               !.seen = Append(@, <<name, out>>),
               !.verdict = FALSE,
               !.err = RuleError(name, "HTTP request failed: "
                          \o ExhaustedError(GetRetryCount(st.config.Rules[name]), out.err)),
               !.pc = "done"]

\* Execute's loop body for the rule name when the request returned a response:
\* r is executeRule's result and stored the cookie store it leaves.
respondedStep(st, name, out, r, stored) ==
    IF r.err # ""
    THEN [st EXCEPT !.started = Append(@, name),
                    !.seen = Append(@, <<name, out>>),
                    !.cookies = stored,
                    !.verdict = FALSE,
                    !.err = RuleError(name, r.err),
                    !.pc = "done"]
    ELSE [st EXCEPT !.started = Append(@, name),
                    !.seen = Append(@, <<name, out>>),
                    !.cookies = stored,
                    !.ruleResults = record(@, name, r.val)]

\* Execute's loop body for the rule name, on an Engine in state st whose client
\* reads the cookie store cookieStore, the rule's request ending with out.
ruleStep(st, cookieStore, name, out) ==
    IF out.failed THEN requestFailedStep(st, name, out)
    ELSE respondedStep(st, name, out,
                       ruleResult(st.config.Rules[name], out.response, cookieStore),
                       ruleCookies(st.config.Rules[name], out.response, cookieStore))

\* Execute after its rule loop (engine.go 49-61).
finishStep(st) ==
    [st EXCEPT !.verdict = executeVerdict(st.config.Expression, st.ruleResults).val,
               !.err = executeVerdict(st.config.Expression, st.ruleResults).err,
               !.pc = "done"]

\* Engine e takes a rule of its map and executes it.
EngineRule(e, name, out) ==
    /\ e \in DOMAIN engines
    /\ engines[e].pc = "rules"
    /\ name \in DOMAIN engines[e].config.Rules
    /\ name \notin Range(engines[e].started)
    /\ engines' = [engines EXCEPT ![e] = ruleStep(engines[e], clientCookies(engines, e), name, out)]
    /\ UNCHANGED <<config, declared, ruleResults, cookies, pc, started, cur, opts, i, lastErr,
                   trace, response, reqErr, verdict, err, written, aggregated>>

\* Engine e's rule loop is over: its Execute returns the verdict.
EngineFinish(e) ==
    /\ e \in DOMAIN engines
    /\ engines[e].pc = "rules"
    /\ Range(engines[e].started) = DOMAIN engines[e].config.Rules
    /\ engines' = [engines EXCEPT ![e] = finishStep(engines[e])]
    /\ UNCHANGED <<config, declared, ruleResults, cookies, pc, started, cur, opts, i, lastErr,
                   trace, response, reqErr, verdict, err, written, aggregated>>

\* The configurations of the Engines run side by side: a login rule that stores
\* the Set-Cookie value and a rule that sends and validates the stored cookie;
\* that second rule alone; a rule with its own cookie and one without any.
TwoConfigs ==
    { [Rules |-> [n \in {"r0", "r1"} |->
                     IF n = "r0"
                     THEN MkRule("POST", "/login", 10, 1, "response.headers.get('Set-Cookie')",
                                 "", "", "response.status==200")
                     ELSE MkRule("GET", "/me", 60, 1, "response.body.extract('token=(\\w+)')",
                                 ExtractedCookie, "cookie.contains('sid')", "")],
       Expression |-> "r0() && r1()"],
      [Rules |-> [n \in {"r1"} |->
                     MkRule("GET", "/me", 60, 1, "", ExtractedCookie, "cookie.contains('sid')", "")],
       Expression |-> ""],
      [Rules |-> [n \in {"r0", "r2"} |->
                     IF n = "r0"
                     THEN MkRule("GET", "/admin", 90, 1, "", "session_id=abc123",
                                 "cookie.contains('session_id')", "")
                     ELSE MkRule("GET", "/", 0, 0, "", "", "", "")],
       Expression |-> ""] }

\* Two Engines made by NewEngine, each on a configuration of its own.
InitTwo ==
    /\ engines \in [1..2 -> {NewEngineState(c) : c \in TwoConfigs}]
    /\ config = [Rules |-> [n \in {} |-> 0], Expression |-> ""]
    /\ declared = <<>>
    /\ ruleResults = NoResults
    /\ cookies = NoCookies
    /\ pc = "engines"
    /\ started = <<>>
    /\ cur = ""
    /\ opts = NoOpts
    /\ i = 0
    /\ lastErr = ""
    /\ trace = <<>>
    /\ response = NilResponse
    /\ reqErr = ""
    /\ verdict = FALSE
    /\ err = ""
    /\ written = <<>>
    /\ aggregated = FALSE

NextTwo ==
    \/ \E e \in 1..2 : \E name \in Range(RuleNames) : \E out \in RequestOutcomes :
           EngineRule(e, name, out)
    \/ \E e \in 1..2 : EngineFinish(e)

\* The Execute calls of two Engines, their rule steps interleaved in any way.
SpecTwo == InitTwo /\ [][NextTwo]_vars

\* ------------------------------- two runs against one deterministic target
\* A target that answers as a function of the request: a request that carries a
\* Cookie header gets the page of a logged-in user; without one, /login answers
\* with the login's Set-Cookie, / with a page, and every other path with 404.
Target(method, path, cookie) ==
    IF cookie # <<>> THEN RespLogin
    ELSE IF path = "/login" THEN RespLogin
    ELSE IF path = "/" THEN RespPage
    ELSE RespMissing

\* How the ExecuteRequest call for the options o ends against the target, the
\* client's cookie store being stored: every attempt fails at http.NewRequest
\* (client.go 113-120), or the first attempt is answered (client.go 122-191).
Answer(o, stored) ==
    IF NewRequestFails(o.Method)
    THEN [failed |-> TRUE, response |-> NilResponse, err |-> "creating the request failed"]
    ELSE [failed |-> FALSE, err |-> "",
          response |-> Target(o.Method, o.Path, IF "Cookie" \in DOMAIN RequestHeaders(o, stored)
                                                THEN <<RequestHeaders(o, stored)["Cookie"]>>
                                                ELSE <<>>)]

\* Engine e's range over its rules takes the rule name, whose request the
\* target answers.
TargetRule(e, name) ==
    /\ e \in DOMAIN engines
    /\ engines[e].pc = "rules"
    /\ name \in DOMAIN engines[e].config.Rules
    /\ name \notin Range(engines[e].started)
    /\ EngineRule(e, name, Answer(RuleOptions(engines[e].config.Rules[name]),
                                  clientCookies(engines, e)))

\* The configurations of Configs as POCConfig values.
OrderConfigs ==
    {[Rules |-> [n \in Range(SubSeq(RuleNames, 1, Len(c.rules))) |->
                    c.rules[CHOOSE k \in 1..Len(c.rules) : RuleNames[k] = n]],
      Expression |-> c.Expression] : c \in Configs}

\* Two Engines made by NewEngine on the same configuration.
InitOrders ==
    /\ \E c \in OrderConfigs : engines = [e \in 1..2 |-> NewEngineState(c)]
    /\ config = [Rules |-> [n \in {} |-> 0], Expression |-> ""]
    /\ declared = <<>>
    /\ ruleResults = NoResults
    /\ cookies = NoCookies
    /\ pc = "engines"
    /\ started = <<>>
    /\ cur = ""
    /\ opts = NoOpts
    /\ i = 0
    /\ lastErr = ""
    /\ trace = <<>>
    /\ response = NilResponse
    /\ reqErr = ""
    /\ verdict = FALSE
    /\ err = ""
    /\ written = <<>>
    /\ aggregated = FALSE

NextOrders ==
    \/ \E e \in 1..2 : \E name \in Range(RuleNames) : TargetRule(e, name)
    \/ \E e \in 1..2 : EngineFinish(e)

\* Two Execute runs of one configuration against the target, each ranging over
\* the rules in an order of its own.
SpecOrders == InitOrders /\ [][NextOrders]_vars

\* ------------------------------- a rule's expression on a returned response
\* Largest number of segments joined by || or by && in an explored expression.
MaxSegments == 2

\* Single clauses: comparisons, contains predicates, and one that is malformed.
Clauses ==
    {"response.status==200", "response.status>=400", "response.body.contains('admin')",
     "cookie.contains('sid')", "response.status##"}

\* Segments of an ||-expression: the single clauses, and one that holds an &&.
OrSegments == Clauses \cup {"response.status==200 && cookie.contains('sid')"}

OrExpressions == {Join(cl, " || ") : cl \in SeqsUpTo(OrSegments, MaxSegments) \ {<<>>}}

AndExpressions == {Join(cl, " && ") : cl \in SeqsUpTo(Clauses, MaxSegments) \ {<<>>}}

\* (E), and an ||-expression whose second segment is (E).
Parenthesized(E) == "(" \o E \o ")"

ParenthesizedExpressions ==
    {Parenthesized(E) : E \in OrExpressions \cup AndExpressions}
        \cup {"response.status>=400 || " \o Parenthesized(E) : E \in AndExpressions}

\* response.status compared with a literal.
ComparisonOperators == {"==", "!=", ">=", "<=", ">", "<"}

Comparison(l, op, r) == l \o op \o r

IntegerLiterals == {199, 200, 201, 404, -1}

OtherLiterals == {"'200'", "'abc'", "abc"}

ComparisonExpressions ==
    {Comparison("response.status", op, Itoa(k)) : op \in ComparisonOperators, k \in IntegerLiterals}
        \cup {Comparison("response.status", op, l) : op \in ComparisonOperators, l \in OtherLiterals}
        \cup {Comparison(l, op, "response.status") : op \in ComparisonOperators, l \in OtherLiterals}

EvalExpressions ==
    OrExpressions \cup AndExpressions \cup ParenthesizedExpressions \cup ComparisonExpressions

\* The responses the expressions are evaluated on.
EvalResponses == Responses \cup {MkResponse(199, NoHeaders, "", <<>>), MkResponse(500, NoHeaders, "admin", <<>>)}

\* Execute on a configuration of one rule, r0, whose request has just returned a
\* response at its first attempt; the rule declares an expression and nothing
\* else, and the client holds a stored cookie or none.
InitEval ==
    /\ \E e \in EvalExpressions :
           config = [Rules |-> [n \in {"r0"} |-> MkRule("GET", "/", 0, 0, "", "", "", e)],
                     Expression |-> ""]
    /\ declared = <<"r0">>
    /\ ruleResults = NoResults
    /\ cookies \in {NoCookies, StoreCookie(NoCookies, "sid=1")}
    /\ pc = "returned"
    /\ started = <<"r0">>
    /\ cur = "r0"
    /\ opts = executeRequestOptions(RuleOptions(MkRule("GET", "/", 0, 0, "", "", "", "")))
    /\ i = 0
    /\ lastErr = ""
    /\ trace = <<Attempt(0, TRUE, NoRuleHeaders, MinTimeout)>>
    /\ response \in EvalResponses
    /\ reqErr = ""
    /\ verdict = FALSE
    /\ err = ""
    /\ written = <<>>
    /\ aggregated = FALSE
    /\ engines = <<>>

NextEval == RuleFails \/ RuleRecorded

\* executeRule's validation of one response against one expression.
SpecEval == InitEval /\ [][NextEval]_vars

\* ------------------------------------------------------------- properties
IsAttempt(e) == e.ev = "attempt"

IsSleep(e) == e.ev = "sleep"

\* The number of attempts of the current ExecuteRequest call.
AttemptCount == Len(SelectSeq(trace, IsAttempt))

\* The delays slept in the current ExecuteRequest call, in order.
Sleeps == [k \in DOMAIN SelectSeq(trace, IsSleep) |-> SelectSeq(trace, IsSleep)[k].n]

\* ExecuteRequest is not running.
RequestOver == pc \notin {"loop", "send"}

\* A rule's request succeeded and executeRule is about to go on.
AfterResponse == pc = "returned" /\ cur # "" /\ reqErr = ""

\* The cookie store after the current rule's extraction step.
StoredNow == ruleCookies(config.Rules[cur], response, cookies)

\* The current rule's cookie validation holds, or it has none.
CookieValidationPasses ==
    \/ config.Rules[cur].CookieExpression = ""
    \/ ValidateCookie(config.Rules[cur].CookieExpression,
                      cookieToValidate(config.Rules[cur], StoredNow)) = Ok(TRUE)

\* The current rule's response-validation expression evaluates to false,
\* without an error, after its cookie validation passed.
ExpressionIsFalse ==
    /\ AfterResponse
    /\ config.Rules[cur].Expression # ""
    /\ CookieValidationPasses
    /\ Evaluate(config.Rules[cur].Expression, response, GetStoredCookie(StoredNow)) = Ok(FALSE)

\* C1: when a rule's response-validation expression evaluates to false (no
\* evaluation error), false is recorded under the rule's identifier and the run
\* goes on to the remaining rules without an error. The code returns an error
\* from executeRule instead (engine.go 116-118), which ends the run.
C1_FalseExpressionIsRecorded ==
    [][ExpressionIsFalse =>
          /\ pc' = "rules"
          /\ cur \in DOMAIN ruleResults'
          /\ ruleResults'[cur] = FALSE
          /\ err' = ""]_vars

\* The current rule was declared with a retry count <= 0.
NoRetryDeclared == cur # "" /\ config.Rules[cur].RetryCount <= 0

\* C2 as stated: a rule declared with a retry count <= 0 gets exactly one
\* request attempt and no backoff wait, even when that attempt fails.
C2_ExactlyOneAttempt ==
    NoRetryDeclared =>
        /\ AttemptCount <= 1
        /\ Sleeps = <<>>
        /\ (RequestOver => AttemptCount = 1)

\* C2, amended: a rule declared with a retry count <= 0 gets a retry budget of 1:
\* one attempt when the first attempt yields a response, and two attempts with
\* one wait of 2 seconds between them when the first attempt fails; never zero
\* attempts and never more than two.
C2_DefaultBudgetIsOneRetry ==
    NoRetryDeclared =>
        /\ opts.RetryCount = 1
        /\ AttemptCount <= 2
        /\ RequestOver =>
              /\ AttemptCount >= 1
              /\ AttemptCount = 1 => (reqErr = "" /\ Sleeps = <<>>)
              /\ AttemptCount = 2 => Sleeps = <<2>>
              /\ reqErr # "" => AttemptCount = 2

\* A rule declared with a retry count <= 0 failed after its second attempt.
C2_Witness == NoRetryDeclared /\ pc = "returned" /\ reqErr # "" /\ AttemptCount = 2

\* C3: when ExecuteRequest, called with a retry budget n >= 0, returns a
\* response after k failed attempts (k <= n, so also for k = n), it made k + 1
\* attempts numbered 0..k and slept exactly k times, 2, 4, ..., 2k seconds, each
\* sleep right before its re-attempt and none before the first attempt; the
\* response is returned whatever its status.
C3_BackoffSchedule ==
    (pc = "returned" /\ reqErr = "") =>
        /\ ~response.nil
        /\ i <= opts.RetryCount
        /\ Len(trace) = 2 * i + 1
        /\ \A j \in 0..i :
              /\ trace[2 * j + 1].ev = "attempt"
              /\ trace[2 * j + 1].n = j
              /\ j > 0 => (trace[2 * j].ev = "sleep" /\ trace[2 * j].n = 2 * j)

\* The whole budget was used (at least two retries) and the last attempt's 404
\* response is returned.
C3_Witness ==
    /\ pc = "returned" /\ reqErr = ""
    /\ opts.RetryCount >= 2 /\ i = opts.RetryCount
    /\ response.Status = 404
    /\ Sleeps = [k \in 1..opts.RetryCount |-> 2 * k]

\* C4: the rules are executed in the order the input declares them, and the
\* result mapping is written in that order. The code ranges over a Go map
\* (engine.go 41), which keeps no declaration order.
C4_DeclarationOrder ==
    /\ started = SubSeq(declared, 1, Len(started))
    /\ written = SubSeq(declared, 1, Len(written))

\* The current rule's cookie-validation expression evaluates to false, without
\* an error.
CookieValidationIsFalse ==
    /\ AfterResponse
    /\ config.Rules[cur].CookieExpression # ""
    /\ ValidateCookie(config.Rules[cur].CookieExpression,
                      cookieToValidate(config.Rules[cur], StoredNow)) = Ok(FALSE)

\* C5: a cookie-validation expression that evaluates to false makes the rule's
\* outcome false, recorded without aborting the run (only an expression that
\* cannot be evaluated aborts it). The code returns an error from executeRule
\* in both cases (engine.go 101-106).
C5_FalseValidationIsRecorded ==
    [][CookieValidationIsFalse =>
          /\ pc' = "rules"
          /\ cur \in DOMAIN ruleResults'
          /\ ruleResults'[cur] = FALSE
          /\ err' = ""]_vars

\* The rule name has a recorded outcome, and it is true.
RecordedTrue(name) == name \in DOMAIN ruleResults /\ ruleResults[name]

\* The sequences of up to MaxTerms rule names.
NameSeqs == SeqsUpTo(VerdictNames, MaxTerms) \ {<<>>}

\* C6: for an aggregate expression of call-form references name() joined by one
\* operator, the verdict is: with &&, true iff every referenced rule has the
\* recorded outcome true; with ||, true iff at least one has; with a single
\* reference, that rule's recorded outcome; and no error is returned.
C6_CallFormAggregate ==
    pc = "done" =>
        \A ns \in NameSeqs :
            /\ config.Expression = Aggregate(RefsOf(ns, "call"), "&&") =>
                  (err = "" /\ verdict = (\A k \in DOMAIN ns : RecordedTrue(ns[k])))
            /\ config.Expression = Aggregate(RefsOf(ns, "call"), "||") =>
                  (err = "" /\ verdict = (\E k \in DOMAIN ns : RecordedTrue(ns[k])))

\* r0() || r1() with r0 true and r1 false gives true.
C6_Witness ==
    /\ pc = "done"
    /\ config.Expression = "r0() || r1()"
    /\ DOMAIN ruleResults = {"r0", "r1"} /\ ruleResults["r0"] /\ ~ruleResults["r1"]
    /\ verdict

\* The name is r followed by digits.
RDigits(name) == Len(name) >= 2 /\ Ch(name, 1) = "r" /\ \A k \in 2..Len(name) : Ch(name, k) \in Digits

\* The verdict of the aggregate that joins the names ns with op in call form.
CallFormVerdict(ns, op) == executeVerdict(Aggregate(RefsOf(ns, "call"), op), ruleResults).val

\* C7 as stated: an aggregate of bare references to known rule identifiers of
\* any shape yields the verdict of the same aggregate in call form.
C7_BareLikeCallAnyName ==
    pc = "done" =>
        \A ns \in NameSeqs : \A op \in {"&&", "||"} :
            (/\ \A k \in DOMAIN ns : ns[k] \in DOMAIN ruleResults
             /\ config.Expression = Aggregate(RefsOf(ns, "bare"), op))
                => verdict = CallFormVerdict(ns, op)

\* C7, amended: an aggregate of bare references to known rule identifiers of
\* the form r<digits> yields the verdict of the same aggregate in call form; a
\* bare identifier of another shape is not replaced.
C7_BareLikeCallRDigits ==
    pc = "done" =>
        \A ns \in NameSeqs : \A op \in {"&&", "||"} :
            (/\ \A k \in DOMAIN ns : ns[k] \in DOMAIN ruleResults /\ RDigits(ns[k])
             /\ config.Expression = Aggregate(RefsOf(ns, "bare"), op))
                => verdict = CallFormVerdict(ns, op)

\* r0 && r1 with r0 true and r1 false gives false, as r0() && r1() does.
C7_Witness ==
    /\ pc = "done"
    /\ config.Expression = "r0 && r1"
    /\ DOMAIN ruleResults = {"r0", "r1"} /\ ruleResults["r0"] /\ ~ruleResults["r1"]
    /\ ~verdict
    /\ ~CallFormVerdict(<<"r0", "r1">>, "&&")

\* References by name and form, and the expression they make.
RefPairs == VerdictNames \X {"call", "bare"}

PairRefs(ps) == [k \in DOMAIN ps |-> Ref(ps[k][1], ps[k][2])]

PairSeqs == SeqsUpTo(RefPairs, MaxTerms) \ {<<>>}

\* C8 as stated: a referenced identifier without a recorded result counts as
\* false, whatever the form of the reference: no error is returned and a
\* conjunction that contains such a reference is false.
C8_UnresolvedIsFalseAnyForm ==
    pc = "done" =>
        /\ err = ""
        /\ \A ps \in PairSeqs :
              (/\ config.Expression = Aggregate(PairRefs(ps), "&&")
               /\ \E k \in DOMAIN ps : ps[k][1] \notin DOMAIN ruleResults)
                  => ~verdict

\* C8, amended: an identifier without a recorded result that is referenced in
\* call form, or bare with a name of the form r<digits>, counts as false: no
\* error is returned and a conjunction that contains such a reference is false.
C8_UnresolvedIsFalse ==
    pc = "done" =>
        /\ err = ""
        /\ \A ps \in PairSeqs :
              (/\ config.Expression = Aggregate(PairRefs(ps), "&&")
               /\ \E k \in DOMAIN ps :
                     /\ ps[k][1] \notin DOMAIN ruleResults
                     /\ (ps[k][2] = "call" \/ RDigits(ps[k][1])))
                  => ~verdict

\* r0() && r1() with r0 true and nothing recorded for r1 gives false, no error.
C8_Witness ==
    /\ pc = "done"
    /\ config.Expression = "r0() && r1()"
    /\ DOMAIN ruleResults = {"r0"} /\ ruleResults["r0"]
    /\ ~verdict /\ err = ""

\* C9: when a rule's request fails after its retry budget, the run ends at once
\* with an error: nothing is recorded for the rule, no later rule is started,
\* and the aggregate expression is not evaluated.
C9_RequestFailureAborts ==
    /\ [][(pc = "returned" /\ cur # "" /\ reqErr # "") =>
             /\ pc' = "done"
             /\ err' # "" /\ ~verdict'
             /\ ruleResults' = ruleResults /\ cur \notin DOMAIN ruleResults'
             /\ started' = started
             /\ ~aggregated']_vars
    /\ [][pc = "done" => UNCHANGED vars]_vars

\* A run of two rules with an aggregate expression ended at the first rule's
\* request failure.
C9_Witness ==
    /\ pc = "done" /\ reqErr # "" /\ err # ""
    /\ Len(declared) = 2 /\ Len(started) = 1
    /\ config.Expression # ""
    /\ ~aggregated

\* C10: without an aggregate expression, the verdict is the conjunction of all
\* recorded outcomes, true for an empty rule set, and no error is returned.
C10_VerdictIsConjunction ==
    (pc = "done" /\ config.Expression = "") =>
        /\ err = ""
        /\ verdict = (\A n \in DOMAIN ruleResults : ruleResults[n])
        /\ DOMAIN ruleResults = {} => verdict

\* No aggregate expression, one true and one false outcome: the verdict is false.
C10_Witness ==
    /\ pc = "done" /\ config.Expression = ""
    /\ \E n \in DOMAIN ruleResults : ruleResults[n]
    /\ \E n \in DOMAIN ruleResults : ~ruleResults[n]
    /\ ~verdict

\* The current rule's response-validation expression is the malformed
\* response.status## and executeRule has come to it.
MalformedExpression ==
    /\ AfterResponse
    /\ config.Rules[cur].Expression = "response.status##"
    /\ CookieValidationPasses

\* C11: when a rule's response-validation expression is malformed
\* (response.status##), its evaluation fails with the unsupported-expression
\* error, Execute returns that error (wrapped, with a false verdict) without
\* recording an outcome, no later rule is started and the aggregate expression is
\* not evaluated.
C11_MalformedExpressionAborts ==
    /\ [][MalformedExpression =>
             /\ Evaluate(config.Rules[cur].Expression, response, GetStoredCookie(StoredNow))
                    = Fail("unsupported expression")
             /\ pc' = "done"
             /\ ~verdict'
             /\ err' = RuleError(cur, "expression evaluation failed: unsupported expression")
             /\ ruleResults' = ruleResults
             /\ started' = started
             /\ ~aggregated']_vars
    /\ [][(pc = "done" /\ err # "") => UNCHANGED <<started, ruleResults, aggregated, err>>]_vars

\* A run of two rules with an aggregate expression ended at the first rule's
\* malformed expression.
C11_Witness ==
    /\ pc = "done"
    /\ cur # "" /\ reqErr = ""
    /\ config.Rules[cur].Expression = "response.status##"
    /\ err = RuleError(cur, "expression evaluation failed: unsupported expression")
    /\ Len(declared) = 2 /\ Len(started) = 1
    /\ config.Expression # ""
    /\ ~aggregated

\* What ExtractCookie returns for the current rule and its response.
Extraction == ExtractCookie(config.Rules[cur].ExtractCookie, response)

\* The current rule has an extraction expression and ExtractCookie returns
\* without an error.
Extracts == AfterResponse /\ config.Rules[cur].ExtractCookie # "" /\ Extraction.err = ""

\* The step taken ends executeRule for the current rule with the result r:
\* recorded when r carries no error, returned by Execute when it does.
StepOutcomeIs(r) ==
    IF r.err = ""
    THEN pc' = "rules" /\ cur \in DOMAIN ruleResults' /\ ruleResults'[cur] = r.val
    ELSE pc' = "done" /\ err' = RuleError(cur, r.err)

\* The step taken stores the extracted value v and ends the current rule with
\* the validations' result on the store that holds v.
ReplacedBeforeValidation(v) ==
    /\ GetStoredCookie(cookies') = v
    /\ StepOutcomeIs(validateWith(config.Rules[cur], response, StoreCookie(cookies, v)))

\* The current rule has an extraction expression and its request returned a
\* response.
HasExtraction == AfterResponse /\ config.Rules[cur].ExtractCookie # ""

\* The step taken on ExtractCookie's result x, when x carries no error: the
\* value replaces the stored one before the validations, whatever it is.
AnyValueStep(x) == x.err = "" => ReplacedBeforeValidation(x.val)

\* The step taken on ExtractCookie's result x, when x carries no error: a
\* non-empty value replaces the stored one before the validations, an empty
\* value leaves the store as it was.
ExtractionStep(x) ==
    x.err = "" =>
        IF x.val # ""
        THEN ReplacedBeforeValidation(x.val)
        ELSE /\ cookies' = cookies
             /\ StepOutcomeIs(validateWith(config.Rules[cur], response, cookies))

\* C12 as stated: the stored cookie is one value shared by the rules of a run,
\* and whenever a rule's extraction returns without an error, the extracted
\* value, whatever it is, replaces the stored one before the rule's
\* cookie-validation and response-validation expressions read the store.
C12_LastExtractionWinsAnyValue ==
    /\ [](DOMAIN cookies \subseteq {"extracted"})
    /\ [][HasExtraction => AnyValueStep(Extraction)]_vars

\* C12, amended: the stored cookie is one value shared by the rules of a run;
\* whenever a rule's extraction returns a non-empty value, that value replaces
\* the stored one before the rule's cookie-validation and response-validation
\* expressions read the store; an extraction that returns the empty string
\* (nothing found) leaves the stored value as it was.
C12_LastNonEmptyExtractionWins ==
    /\ [](DOMAIN cookies \subseteq {"extracted"})
    /\ [][HasExtraction => ExtractionStep(Extraction)]_vars

\* The first rule stored the Set-Cookie value (which contains sid); the second
\* rule extracted ab12 from the body, and its cookie validation read ab12.
C12_Witness ==
    /\ pc = "done"
    /\ Len(started) = 2 /\ cur = started[2]
    /\ config.Rules[started[1]].ExtractCookie = "response.headers.get('Set-Cookie')"
    /\ config.Rules[cur].CookieExpression = "cookie.contains('sid')"
    /\ GetStoredCookie(cookies) = "ab12"
    /\ err = RuleError(cur, "cookie validation not passed")

\* The current rule has an extraction expression and ExtractCookie returns an
\* error.
ExtractionFails ==
    AfterResponse /\ config.Rules[cur].ExtractCookie # "" /\ Extraction.err # ""

\* C13: when a rule's cookie extraction fails (unsupported extraction form,
\* pattern that does not compile), the error is not propagated: the stored cookie
\* is left as it was, the result mapping changes by nothing but the rule's own
\* outcome, and the rule goes on with its validation steps, whose result alone
\* decides whether the run goes on.
C13_ExtractionFailureIsSwallowed ==
    [][ExtractionFails =>
          /\ cookies' = cookies
          /\ StepOutcomeIs(validateWith(config.Rules[cur], response, cookies))
          /\ \A n \in DOMAIN ruleResults \ {cur} :
                n \in DOMAIN ruleResults' /\ ruleResults'[n] = ruleResults[n]
          /\ DOMAIN ruleResults' \subseteq DOMAIN ruleResults \cup {cur}]_vars

\* The second rule's pattern did not compile; the cookie the first rule stored
\* is still there, and the second rule's outcome is recorded.
C13_Witness ==
    /\ pc = "rules"
    /\ Len(started) = 2 /\ cur = started[2]
    /\ config.Rules[cur].ExtractCookie = "response.body.extract('(')"
    /\ ExtractCookie(config.Rules[cur].ExtractCookie, response).err = "invalid regular expression"
    /\ GetStoredCookie(cookies) = "sid=1; u=admin"
    /\ DOMAIN ruleResults = {started[1], cur}

\* The positions in the trace of the attempts whose request was sent.
SentAttempts == {k \in DOMAIN trace : trace[k].ev = "attempt" /\ trace[k].sent}

\* The Cookie header of a header map: <<>> when there is none, else <<value>>.
CookieOf(headers) == IF "Cookie" \in DOMAIN headers THEN <<headers["Cookie"]>> ELSE <<>>

\* A rule's ExecuteRequest call is running or has just returned: the cookie
\* store is the one its attempts were made with.
InRuleRequest == cur # "" /\ pc \in {"loop", "send", "returned"}

\* executeRule hands the rule's use_cookie and headers to ExecuteRequest as they are.
OptionsOfRule ==
    /\ opts.UseCookie = config.Rules[cur].UseCookie
    /\ opts.Headers = config.Rules[cur].Headers

\* C14 as stated: when a rule's use_cookie is the sentinel
\* response.extracted_cookie, every attempt of its request carries a Cookie
\* header equal to the stored cookie string; any other non-empty use_cookie is
\* sent verbatim as the Cookie header, whatever is stored.
C14_SentinelSendsStoredCookie ==
    InRuleRequest =>
        /\ OptionsOfRule
        /\ \A k \in SentAttempts :
              /\ config.Rules[cur].UseCookie = ExtractedCookie =>
                    CookieOf(trace[k].Headers) = <<GetStoredCookie(cookies)>>
              /\ config.Rules[cur].UseCookie \notin {"", ExtractedCookie} =>
                    CookieOf(trace[k].Headers) = <<config.Rules[cur].UseCookie>>

\* C14, amended: when a rule's use_cookie is the sentinel and a non-empty cookie
\* is stored, every attempt of its request carries a Cookie header equal to the
\* stored cookie string; when nothing is stored, use_cookie sets no Cookie
\* header (the request carries only the one the rule's headers declare, if
\* any); any other non-empty use_cookie is sent verbatim as the Cookie header,
\* whatever is stored.
C14_SentinelSendsNonEmptyStoredCookie ==
    InRuleRequest =>
        /\ OptionsOfRule
        /\ \A k \in SentAttempts :
              /\ (config.Rules[cur].UseCookie = ExtractedCookie /\ GetStoredCookie(cookies) # "") =>
                    CookieOf(trace[k].Headers) = <<GetStoredCookie(cookies)>>
              /\ (config.Rules[cur].UseCookie = ExtractedCookie /\ GetStoredCookie(cookies) = "") =>
                    CookieOf(trace[k].Headers) = CookieOf(config.Rules[cur].Headers)
              /\ config.Rules[cur].UseCookie \notin {"", ExtractedCookie} =>
                    CookieOf(trace[k].Headers) = <<config.Rules[cur].UseCookie>>

\* A rule with the sentinel, run after a rule that stored a cookie, sent two
\* attempts, both with the stored cookie.
C14_Witness ==
    /\ pc = "returned" /\ cur # ""
    /\ config.Rules[cur].UseCookie = ExtractedCookie
    /\ GetStoredCookie(cookies) = "sid=1; u=admin"
    /\ Cardinality(SentAttempts) = 2
    /\ \A k \in SentAttempts : CookieOf(trace[k].Headers) = <<"sid=1; u=admin">>

\* Largest declared timeout, in seconds, the accessor and the floor are compared on.
MaxTimeout == 125

\* The larger of two numbers.
AtLeast(t, m) == IF t > m THEN t ELSE m

\* C15: for every declared timeout t, t <= 0 included, the timeout of the
\* client that sends an attempt is max(t, 60) seconds, and ExecuteRequest's
\* floor applied to the accessor's value gives the accessor's value again (the
\* two floors act as one).
C15_TimeoutIsFloored ==
    /\ \A t \in (-2)..MaxTimeout :
          /\ GetTimeout([Timeout |-> t]) = AtLeast(t, 60)
          /\ FloorTimeout(GetTimeout([Timeout |-> t])) = GetTimeout([Timeout |-> t])
    /\ cur # "" =>
          /\ opts.Timeout = AtLeast(config.Rules[cur].Timeout, 60)
          /\ \A k \in SentAttempts : trace[k].Timeout = AtLeast(config.Rules[cur].Timeout, 60)

\* A run whose first rule declared 30 seconds and sent with 60, and whose second
\* rule declared 90 seconds and sent with 90.
C15_Witness ==
    /\ pc = "returned" /\ cur # "" /\ Len(started) = 2
    /\ config.Rules[started[1]].Timeout = 30
    /\ config.Rules[cur].Timeout = 90
    /\ SentAttempts # {}
    /\ \A k \in SentAttempts : trace[k].Timeout = 90

\* The state of an Engine on configuration c that ran alone through the first k
\* rule steps of the history seen.
RECURSIVE Replayed(_, _, _)
Replayed(c, seen, k) ==
    IF k = 0 THEN NewEngineState(c)
    ELSE LET before == Replayed(c, seen, k - 1)
         IN  ruleStep(before, before.cookies, seen[k][1], seen[k][2])

\* What the run of st's Engine gives when executed alone: same configuration,
\* same rule order, same request outcomes.
Alone(st) ==
    LET s == Replayed(st.config, st.seen, Len(st.seen))
    IN  IF st.pc = "done" /\ s.pc = "rules" THEN finishStep(s) ELSE s

\* C16: of two Engines made by NewEngine and run side by side, under every
\* interleaving of their rule steps, each has at every moment the per-rule
\* results, stored cookie, verdict and error that its run gives when executed
\* alone: neither reads or writes the other's result mapping or cookie store.
C16_EnginesAreIsolated == \A e \in DOMAIN engines : engines[e] = Alone(engines[e])

\* The first Engine stored a cookie that contains sid; the second Engine, whose
\* rule validates the stored cookie against sid, found its own store empty.
C16_Witness ==
    /\ DOMAIN engines = 1..2
    /\ GetStoredCookie(engines[1].cookies) = "sid=1; u=admin"
    /\ engines[1].pc = "done" /\ engines[1].err = "" /\ engines[1].verdict
    /\ engines[2].pc = "done"
    /\ engines[2].cookies = NoCookies
    /\ engines[2].err = RuleError("r1", "cookie validation not passed")

\* What Evaluate returns for the current rule's expression, as executeRule calls
\* it on a rule without extraction.
Evaluated == Evaluate(config.Rules[cur].Expression, response, GetStoredCookie(cookies))

\* What a segment gives when evaluated as a single clause.
SegmentResult(seg) == evaluateSingle(seg, response, GetStoredCookie(cookies))

\* The sequences of at least two segments.
OrSegmentSeqs == {cl \in SeqsUpTo(OrSegments, MaxSegments) : Len(cl) >= 2}

AndSegmentSeqs == {cl \in SeqsUpTo(Clauses, MaxSegments) : Len(cl) >= 2}

\* Segment k is the first that is not plainly false.
FirstDecisive(cl, k) == \A j \in 1..(k - 1) : SegmentResult(cl[j]) = Ok(FALSE)

\* C17: an expression that contains || is split on every ||, and its trimmed
\* segments are evaluated left to right as single clauses: the result is true at
\* the first true segment, whatever the later segments are (an error in a later
\* segment does not surface), false when every segment is false, and the error
\* of the first segment that fails before any is true. An expression that
\* contains && and no || is true iff every segment evaluates to true, and false
\* without an error when no segment fails and one is false.
C17_OrAndSegments ==
    cur # "" =>
        /\ \A cl \in OrSegmentSeqs :
              config.Rules[cur].Expression = Join(cl, " || ") =>
                  /\ [k \in DOMAIN Split(config.Rules[cur].Expression, "||") |->
                         TrimSpace(Split(config.Rules[cur].Expression, "||")[k])] = cl
                  /\ \A k \in DOMAIN cl :
                        (FirstDecisive(cl, k) /\ SegmentResult(cl[k]) # Ok(FALSE)) =>
                            Evaluated = SegmentResult(cl[k])
                  /\ (\A k \in DOMAIN cl : SegmentResult(cl[k]) = Ok(FALSE)) => Evaluated = Ok(FALSE)
        /\ \A cl \in AndSegmentSeqs :
              config.Rules[cur].Expression = Join(cl, " && ") =>
                  /\ Evaluated = Ok(TRUE) <=> \A k \in DOMAIN cl : SegmentResult(cl[k]) = Ok(TRUE)
                  /\ (\A k \in DOMAIN cl : SegmentResult(cl[k]).err = "") => Evaluated.err = ""
                  /\ (\E k \in DOMAIN cl : SegmentResult(cl[k]).err # "") => Evaluated.err # ""
        /\ pc = "rules" => (Evaluated = Ok(TRUE) /\ cur \in DOMAIN ruleResults /\ ruleResults[cur])
        /\ (pc = "done" /\ config.Rules[cur].ExtractCookie = "" /\ config.Rules[cur].CookieExpression = ""
              /\ reqErr = "" /\ err # "") => Evaluated # Ok(TRUE)

\* On a response with status 200, an ||-expression whose first segment is true
\* and whose second segment is malformed is true: the rule is recorded.
C17_Witness ==
    /\ pc = "rules" /\ cur # ""
    /\ config.Rules[cur].Expression = "response.status==200 || response.status##"
    /\ SegmentResult("response.status##").err # ""
    /\ ruleResults[cur]

\* The supported expressions: comparisons and contains predicates, alone or
\* joined by && or by ||.
SupportedClauses == Clauses \ {"response.status##"}

SupportedExpressions ==
    {Join(cl, " && ") : cl \in SeqsUpTo(SupportedClauses, MaxSegments) \ {<<>>}}
        \cup {Join(cl, " || ") : cl \in SeqsUpTo(SupportedClauses, MaxSegments) \ {<<>>}}

\* C18: a clause (E) is evaluated by evaluating E again in full: for every
\* supported expression E, (E) gives exactly the boolean or the error that E
\* gives, also as a segment of an ||-expression. The code strips every leading
\* and trailing parenthesis of the clause (part_001 90), the one that closes a
\* contains(...) call included, and splits on || and && before it looks at the
\* parentheses (part_001 36-41).
C18_ParenthesesReevaluate ==
    cur # "" =>
        \A E \in SupportedExpressions :
            /\ config.Rules[cur].Expression = Parenthesized(E) =>
                  Evaluated = Evaluate(E, response, GetStoredCookie(cookies))
            /\ config.Rules[cur].Expression = "response.status>=400 || " \o Parenthesized(E) =>
                  Evaluated = orStep(SegmentResult("response.status>=400"),
                                     Evaluate(E, response, GetStoredCookie(cookies)))

\* The comparison of two integers by the operator op.
IntCompare(a, op, b) ==
    CASE op = "==" -> a = b
      [] op = "!=" -> a # b
      [] op = ">=" -> a >= b
      [] op = "<=" -> a <= b
      [] op = ">" -> a > b
      [] op = "<" -> a < b

OrderingOperators == {">=", "<=", ">", "<"}

\* The text a literal stands for: a quoted literal without its quotes.
LiteralText(l) == Trim(l, {"'"})

\* The literals that do not parse as an integer.
NonIntegerLiterals == {"'abc'", "abc"}

\* C19: for every response status s and integer literal k, response.status OP k
\* is the integer comparison s OP k for each of ==, !=, >=, <=, >, <; == and !=
\* compare the texts of both sides; an ordering comparison with a side that does
\* not parse as an integer returns an error, and one with a quoted integer
\* compares the integer.
C19_Comparisons ==
    cur # "" =>
        /\ \A op \in ComparisonOperators : \A k \in IntegerLiterals :
              config.Rules[cur].Expression = Comparison("response.status", op, Itoa(k)) =>
                  Evaluated = Ok(IntCompare(response.Status, op, k))
        /\ \A op \in {"==", "!="} : \A l \in OtherLiterals :
              /\ config.Rules[cur].Expression = Comparison("response.status", op, l) =>
                    Evaluated = Ok(IntCompare(Itoa(response.Status), op, LiteralText(l)))
              /\ config.Rules[cur].Expression = Comparison(l, op, "response.status") =>
                    Evaluated = Ok(IntCompare(LiteralText(l), op, Itoa(response.Status)))
        /\ \A op \in OrderingOperators : \A l \in NonIntegerLiterals :
              (\/ config.Rules[cur].Expression = Comparison("response.status", op, l)
               \/ config.Rules[cur].Expression = Comparison(l, op, "response.status"))
                  => (Evaluated.err # "" /\ (pc # "returned" => (pc = "done" /\ err # "")))
        /\ \A op \in OrderingOperators :
              /\ config.Rules[cur].Expression = Comparison("response.status", op, "'200'") =>
                    Evaluated = Ok(IntCompare(response.Status, op, 200))
              /\ config.Rules[cur].Expression = Comparison("'200'", op, "response.status") =>
                    Evaluated = Ok(IntCompare(200, op, response.Status))

\* response.status>=200 on a response with status 404 is true: the rule is recorded.
C19_Witness ==
    /\ pc = "rules" /\ cur # ""
    /\ config.Rules[cur].Expression = "response.status>=200"
    /\ response.Status = 404
    /\ ruleResults[cur]

\* The last event of the trace is the attempt numbered k.
LastAttemptIs(k) ==
    Len(trace) > 0 /\ trace[Len(trace)].ev = "attempt" /\ trace[Len(trace)].n = k

\* C20: ExecuteRequest always returns. With a retry budget n >= 0 it returns a
\* failure only after n + 1 attempts, numbered 0..n, each counted whether it
\* failed at the request's construction or after the request was sent; the
\* returned error ends with the error of the last attempt; and it returns
\* either a response or an error, never both and never neither.
C20_ExecuteRequestTerminates ==
    /\ <>(pc = "returned")
    /\ [](AttemptCount <= opts.RetryCount + 1 \/ AttemptCount = 0)
    /\ [](pc = "returned" => ((reqErr # "") <=> response.nil))
    /\ []((pc = "returned" /\ reqErr # "" /\ opts.RetryCount >= 0) =>
             /\ AttemptCount = opts.RetryCount + 1
             /\ \A k \in 0..opts.RetryCount : \E j \in DOMAIN trace : IsAttempt(trace[j]) /\ trace[j].n = k
             /\ LastAttemptIs(opts.RetryCount)
             /\ lastErr # ""
             /\ trace[Len(trace)].sent <=> lastErr \in SendErrors
             /\ HasSuffix(reqErr, ": " \o lastErr))

\* A call with the largest budget whose attempts all failed at the request's
\* construction returned the failure.
C20_Witness ==
    /\ pc = "returned" /\ reqErr # "" /\ response.nil
    /\ opts.RetryCount = MaxRetry
    /\ AttemptCount = MaxRetry + 1
    /\ \A k \in DOMAIN trace : IsAttempt(trace[k]) => ~trace[k].sent

\* Every &&-part of the segment is the literal true.
SegmentIsTrue(seg) ==
    \A k \in 1..Len(Split(seg, "&&")) : TrimSpace(Split(seg, "&&")[k]) = "true"

\* The verdict of a substituted expression when the ||-split is applied first and
\* a segment counts as true only when it evaluates to true.
OrSplitFirst(expr) ==
    \E k \in 1..Len(Split(expr, "||")) : SegmentIsTrue(TrimSpace(Split(expr, "||")[k]))

\* C21: for an aggregate expression that holds both && and ||, the verdict is
\* the one the ||-split gives when applied first to the substituted expression:
\* true iff some ||-segment evaluates to true, and no error is returned.
C21_OrSplitFirstOnAggregate ==
    (pc = "done" /\ config.Expression \in MixedAggregates) =>
        /\ err = ""
        /\ verdict = OrSplitFirst(Substituted(config.Expression, ruleResults))

\* An Execute call is at its start: no rule has been taken yet.
AtRunStart == pc = "rules" /\ started = <<>>

\* The outcomes the current Execute call recorded itself.
ThisRunResults == [n \in Range(written) \cap DOMAIN ruleResults |-> ruleResults[n]]

\* The first rule of an Execute call is the sentinel's: every attempt sent
\* carries no Cookie header but the one the rule's headers declare.
FirstRuleSendsNothingStored ==
    (InRuleRequest /\ written = <<>> /\ config.Rules[cur].UseCookie = ExtractedCookie) =>
        \A k \in SentAttempts : CookieOf(trace[k].Headers) = CookieOf(config.Rules[cur].Headers)

\* C22: at the start of every Execute call on an Engine the rule-result mapping
\* and the stored cookie are empty; the aggregate's verdict is computed from the
\* outcomes of the current call alone; and a sentinel use_cookie in the first
\* rule of a call sends nothing an earlier call stored.
C22_RunsStartEmpty ==
    /\ AtRunStart => (ruleResults = NoResults /\ cookies = NoCookies)
    /\ (pc = "done" /\ aggregated) =>
          verdict = executeVerdict(config.Expression, ThisRunResults).val
    /\ FirstRuleSendsNothingStored

\* executeRule's result r carries an error exactly when its bool is false.
ErrorIffFalse(r) == (r.err # "") <=> ~r.val

\* With the cookie store the extraction step left, the current rule's cookie
\* validation or its response validation evaluates to false.
ValidationIsFalse(stored) ==
    \/ /\ config.Rules[cur].CookieExpression # ""
       /\ ValidateCookie(config.Rules[cur].CookieExpression,
                         cookieToValidate(config.Rules[cur], stored)) = Ok(FALSE)
    \/ /\ config.Rules[cur].Expression # ""
       /\ Evaluate(config.Rules[cur].Expression, response, GetStoredCookie(stored)) = Ok(FALSE)

\* The step taken on executeRule's result r, when its bool is false: Execute
\* returns the error and writes no entry.
NoEntryStep(r) ==
    ~r.val =>
        /\ pc' = "done"
        /\ ~verdict'
        /\ err' = RuleError(cur, r.err)
        /\ err' # ""
        /\ ruleResults' = ruleResults

\* The step taken on executeRule's result r, stored being the cookie store the
\* extraction step left.
ResultStep(r, stored) ==
    /\ ErrorIffFalse(r)
    /\ ValidationIsFalse(stored) => ~r.val
    /\ NoEntryStep(r)

C24_SameOutcomeInEveryOrder ==
    (engines[1].pc = "done" /\ engines[2].pc = "done") =>
        /\ engines[1].verdict = engines[2].verdict
        /\ (engines[1].err = "") = (engines[2].err = "")
        /\ engines[1].ruleResults = engines[2].ruleResults

====
